---- MODULE Spec2Model ----
(***************************************************************************)
(* Model of the dimensional scan engine of cc-plugin-wcrp                  *)
(* (checks/data_plausibility_checks/utils/data.py) and of the detector     *)
(* checks built on it.                                                     *)
(*                                                                         *)
(* Arrays are modelled as views on the variable's full array: a view is a  *)
(* sequence with one entry per declared dimension of the variable, either  *)
(* Full (the numpy slice(None)) or the integer index the dimension has     *)
(* been fixed at.  The axes of the view are its Full entries, in order.    *)
(***************************************************************************)
EXTENDS Integers, Sequences, FiniteSets, TLC

VARIABLES
    varDims,      \* dataset.variables[variable_name].dimensions
    dimSize,      \* len(dataset.dimensions[d]) for every dimension name d
    checkDims,    \* the check_dims argument of the scan
    mode,         \* "inner": check_variable_conditions, "expanded": ..._expanded
    fnKind,       \* what kind of outcome check_func returns in this scan
    pc,           \* position of the scan: start, outer, inner, done, raised
    error,        \* the exception that ended the scan, "" when none
    combos,       \* combinations (data.py:20)
    ci,           \* number of combinations the outer loop has finished
    combination_dict, \* the dictionary the expanded scan builds
    innerDims,    \* check_dims of the running inner scan
    innerData,    \* variable (data.py:46-49) of the running inner scan, a view
    hasCombo,     \* combo is not None
    combo,        \* combo of the running inner scan
    index_shapes, \* index_shapes (data.py:55) of the running inner scan
    ii,           \* number of iterations the inner loop has finished
    results,      \* results (data.py:53) of the running inner scan
    calls,        \* history: the check_func calls of the running inner scan
    runs,         \* history: the inner scans the expanded scan has started
    suite,        \* check_Data_Plausibility: idle, running, returned, raised
    step,         \* the DATA00n check the suite runs next
    nResults,     \* len(results) of the suite
    reports,      \* the files under reports/: path |-> the invocation that wrote it
    last,         \* the last check invocation: its inputs and what it gave
    called,       \* the helper function that has been applied, "" when none
    input,        \* the arguments the helper function is applied to
    output        \* what the helper function gave: its value or its exception

scanVars == <<varDims, dimSize, checkDims, mode, fnKind, pc, error, combos, ci,
              combination_dict, innerDims, innerData, hasCombo, combo,
              index_shapes, ii, results, calls, runs>>

suiteVars == <<suite, step, nResults, reports, last>>

fnVars == <<called, input, output>>

vars == <<scanVars, suiteVars, fnVars>>

----------------------------------------------------------------------------
(* Bounds of the model *)

MaxRank == 3       \* most dimensions a variable declares
MaxDimSize == 2    \* largest size of one dimension
MaxCells == 4      \* most cells of a variable's array
MaxListLen == 3    \* longest list a scan hands to a detector check
MaxFillCount == 1  \* largest fill/missing value count of one slice
MaxVars == 2       \* most variables of a dataset given to check_outliers
MaxAxisVars == 3   \* most variables of a dataset given to axis resolution
MaxPairs == 6      \* longest list given to detect_changes_in_values

----------------------------------------------------------------------------
(* Sequences and index arithmetic *)

Range(s) == {s[i] : i \in DOMAIN s}

IsInjective(s) == \A i, j \in DOMAIN s : s[i] = s[j] => i = j

\* list.index / tuple.index, 0-based
IndexOf(s, e) == (CHOOSE i \in DOMAIN s : s[i] = e) - 1

RECURSIVE Prod(_)
Prod(s) == IF s = <<>> THEN 1 ELSE Head(s) * Prod(Tail(s))

\* Unrank with the first index varying fastest (column-major)
UnrankColumnMajor(n, shape) ==
    [j \in DOMAIN shape |->
        (n \div Prod(SubSeq(shape, 1, j - 1))) % shape[j]]

\* The n-th (0-based) tuple of the row-major enumeration of a shape
Unrank(n, shape) ==
    [j \in DOMAIN shape |->
        (n \div Prod(SubSeq(shape, j + 1, Len(shape)))) % shape[j]]

\* np.ndindex(*shape) and itertools.product(*[range(k) for k in shape])
NdIndex(shape) == [n \in 1 .. Prod(shape) |-> Unrank(n - 1, shape)]

RECURSIVE Flatten(_)
Flatten(ss) == IF ss = <<>> THEN <<>> ELSE Head(ss) \o Flatten(Tail(ss))

----------------------------------------------------------------------------
(* The dataset *)

DimNames == {"member", "lev", "time", "lat"}

\* The axis map get_ds_dimensions returns for the dataset of the model: its
\* coordinate variables carry axis attributes, so that the map also has the
\* key time (dimensions.py:36)
DsDims ==
    [x |-> "lon", y |-> "lat", t |-> "time", time |-> "time", z |-> "lev",
     member |-> "member"]

Full == -1

FullView == [p \in DOMAIN varDims |-> Full]

\* The value stored in the variable at a full index tuple (0-based indices):
\* every cell holds a different number
DataAt(idx) ==
    LET shape == [p \in DOMAIN varDims |-> dimSize[varDims[p]]]
        RECURSIVE Lin(_)
        Lin(p) == IF p = 0 THEN 0 ELSE Lin(p - 1) * shape[p] + idx[p]
    IN  1 + Lin(Len(varDims))

(* numpy arrays as views *)

FreeAxes(v) == SelectSeq([p \in DOMAIN v |-> p], LAMBDA p : v[p] = Full)

Ndim(v) == Len(FreeAxes(v))

Shape(v) == [k \in 1 .. Ndim(v) |-> dimSize[varDims[FreeAxes(v)[k]]]]

\* array[tuple(full_slice)]
GetItem(v, full_slice) ==
    [p \in DOMAIN v |->
        IF v[p] = Full
        THEN full_slice[Cardinality({q \in 1 .. p : v[q] = Full})]
        ELSE v[p]]

\* array[tuple(coord)] for a full coordinate of the array: one number
CellValue(v, coord) == DataAt(GetItem(v, coord))

----------------------------------------------------------------------------
(* check_func: the outcomes it can return for a slice *)

FnKinds ==
    {"bool", "mask_scores", "mask_scalar", "mask_none", "mask_bare", "int",
     "float", "other"}

\* What check_func returned: tuple3 says the output was a 3-tuple
\* (result, values, scores); type is the Python type of result. For a mask,
\* values is the array the mask was computed from; when the output is the
\* mask alone (tuple3 is FALSE) the scan reads values and scores as None
\* (data.py:68-70)
Outcome(tuple3, type, b, mask, values, scoreType, n) ==
    [tuple3 |-> tuple3, type |-> type, b |-> b, mask |-> mask,
     values |-> values, scoreType |-> scoreType, n |-> n]

Cells(slice) == NdIndex(Shape(slice))

\* The score array a detector computes from the slice values
ScoreOf(value) == 10 * value

\* The number a scalar statistic computes from a slice: the value of its
\* first cell, so that different slices give different numbers
Statistic(slice) == CellValue(slice, [k \in 1 .. Ndim(slice) |-> 0])

Outcomes(kind, slice) ==
    CASE kind = "bool" ->
            {Outcome(FALSE, "bool", b, {}, <<>>, "None", 0) : b \in BOOLEAN}
      [] kind \in {"mask_scores", "mask_scalar", "mask_none"} ->
            {Outcome(TRUE, "ndarray", FALSE, m, slice,
                     CASE kind = "mask_scores" -> "ndarray"
                       [] kind = "mask_scalar" -> "scalar"
                       [] OTHER -> "None",
                     Statistic(slice)) : m \in SUBSET Range(Cells(slice))}
      [] kind = "mask_bare" ->
            {Outcome(FALSE, "ndarray", FALSE, m, slice, "None", 0) :
                m \in SUBSET Range(Cells(slice))}
      [] kind = "int" ->
            {Outcome(FALSE, "int", FALSE, {}, <<>>, "None", Statistic(slice))}
      [] kind = "float" ->
            {Outcome(FALSE, "float", FALSE, {}, <<>>, "None", Statistic(slice))}
      [] OTHER ->
            {Outcome(FALSE, "other", FALSE, {}, <<>>, "None", 0)}

----------------------------------------------------------------------------
(* check_variable_conditions: the inner scan *)

\* float(x) of an integer of the model's range is that number, exactly
PyFloat(x) == x

\* check_dim_indices (data.py:52)
CheckDimIndices(dims) == [j \in DOMAIN dims |-> IndexOf(varDims, dims[j])]

\* variable.shape[i] raises IndexError when i is no axis of variable (data.py:55)
IndexShapesOK(variable, dims) ==
    \A j \in DOMAIN dims : CheckDimIndices(dims)[j] < Ndim(variable)

IndexShapes(variable, dims) ==
    [j \in DOMAIN dims |-> Shape(variable)[CheckDimIndices(dims)[j] + 1]]

\* full_slice of one iteration (data.py:58-60): a later entry of
\* check_dim_indices overwrites an earlier one
InnerFullSlice(variable, dims, indices) ==
    LET cdi == CheckDimIndices(dims)
        Hits(k) == {j \in DOMAIN cdi : cdi[j] = k - 1}
        Last(S) == CHOOSE j \in S : \A i \in S : i <= j
    IN  [k \in 1 .. Ndim(variable) |->
            IF Hits(k) = {} THEN Full ELSE indices[Last(Hits(k))]]

\* one element of results
Entry(arity, coord, value, score) ==
    [arity |-> arity, coord |-> coord, value |-> value, score |-> score]

Prefixed(indices) == IF hasCombo THEN combo \o indices ELSE indices

\* TrueCoords that takes every cell of the mask, true or false
TrueCoordsAllCells(out) == Cells(out.values)

\* np.argwhere(result): the true cells in row-major order
TrueCoords(out) == SelectSeq(Cells(out.values), LAMBDA c : c \in out.mask)

\* float(values[tuple(coord)] if values is not None else None) raises TypeError
NormalizeRaises(out) ==
    out.type = "ndarray" /\ ~out.tuple3 /\ out.mask # {}

\* One element of results for a true cell of a mask (data.py:78-96)
MaskEntry(out, indices, coord) ==
    Entry(3, Prefixed(indices) \o coord,
          <<PyFloat(CellValue(out.values, coord))>>,
          IF ~out.tuple3 \/ out.scoreType = "None" THEN <<>>
          ELSE IF out.scoreType = "ndarray"
               THEN <<PyFloat(ScoreOf(CellValue(out.values, coord)))>>
               ELSE <<PyFloat(out.n)>>)

\* Normalize that records a boolean outcome whether it is true or false
NormalizeEveryBoolean(out, indices) ==
    IF out.type = "bool"
    THEN <<Entry(1, indices, <<>>, <<>>)>>
    ELSE IF out.type = "ndarray"
    THEN [k \in DOMAIN TrueCoords(out) |-> MaskEntry(out, indices, TrueCoords(out)[k])]
    ELSE IF out.type = "int"
    THEN <<Entry(2, Prefixed(indices), <<PyFloat(out.n)>>, <<>>)>>
    ELSE <<>>

\* What one iteration appends to results (data.py:72-103)
Normalize(out, indices) ==
    IF out.type = "bool"
    THEN IF out.b THEN <<Entry(1, indices, <<>>, <<>>)>> ELSE <<>>
    ELSE IF out.type = "ndarray"
    THEN [k \in DOMAIN TrueCoords(out) |-> MaskEntry(out, indices, TrueCoords(out)[k])]
    ELSE IF out.type = "int"
    THEN <<Entry(2, Prefixed(indices), <<PyFloat(out.n)>>, <<>>)>>
    ELSE <<>>

\* The exception the body of check_variable_conditions raises before its loop
\* (data.py:51-55), "" when none
InnerEnterError(variable, dims) ==
    IF IndexShapesOK(variable, dims) THEN "" ELSE "IndexError"

\* check_variable_conditions is entered with the given arguments: data.py:46-55
InnerEnter(variable, dims, withCombo, c) ==
    /\ innerData' = variable
    /\ innerDims' = dims
    /\ hasCombo' = withCombo
    /\ combo' = c
    /\ results' = <<>>
    /\ calls' = <<>>
    /\ ii' = 0
    /\ runs' = Append(runs, [combo |-> c, dims |-> dims, data |-> variable])
    /\ IF InnerEnterError(variable, dims) = ""
       THEN /\ index_shapes' = IndexShapes(variable, dims)
            /\ pc' = "inner"
            /\ error' = ""
       ELSE /\ index_shapes' = <<>>
            /\ pc' = "raised"
            /\ error' = InnerEnterError(variable, dims)

\* A caller runs check_variable_conditions(dataset, variable, check_dims, check_func)
CallInner ==
    /\ pc = "start"
    /\ mode = "inner"
    /\ InnerEnter(FullView, checkDims, FALSE, <<>>)
    /\ UNCHANGED <<suiteVars, fnVars>>
    /\ UNCHANGED <<varDims, dimSize, checkDims, mode, fnKind, combos, ci,
                   combination_dict>>

\* One iteration of the loop of check_variable_conditions (data.py:56-103)
InnerStep ==
    /\ pc = "inner"
    /\ ii < Prod(index_shapes)
    /\ LET indices == NdIndex(index_shapes)[ii + 1]
           full_slice == InnerFullSlice(innerData, innerDims, indices)
           data_slice == GetItem(innerData, full_slice)
       IN  \E out \in Outcomes(fnKind, data_slice) :
              /\ calls' = Append(calls, [indices |-> indices, slice |-> data_slice,
                                         out |-> out])
              /\ IF NormalizeRaises(out)
                 THEN /\ pc' = "raised"
                      /\ error' = "TypeError"
                      /\ UNCHANGED <<results, ii>>
                 ELSE /\ results' = results \o Normalize(out, indices)
                      /\ ii' = ii + 1
                      /\ UNCHANGED <<pc, error>>
    /\ UNCHANGED <<suiteVars, fnVars>>
    /\ UNCHANGED <<varDims, dimSize, checkDims, mode, fnKind, combos, ci,
                   combination_dict, innerDims, innerData, hasCombo, combo,
                   index_shapes, runs>>

----------------------------------------------------------------------------
(* check_variable_conditions_expanded: the outer scan *)

\* basic_dims_name (data.py:14-15)
BasicDimsName == {DsDims[k] : k \in {"x", "y", "t"}}

\* additional_dimensions (data.py:16)
AdditionalDimensions(dims) == SelectSeq(dims, LAMBDA d : d \notin BasicDimsName)

\* check_dims_slice (data.py:17)
CheckDimsSlice(dims) == SelectSeq(dims, LAMBDA d : d \in BasicDimsName)

\* combinations (data.py:20)
Combinations(dims) ==
    NdIndex([j \in DOMAIN AdditionalDimensions(dims) |->
                dimSize[AdditionalDimensions(dims)[j]]])

\* str(n) of a natural number
Digits == <<"0", "1", "2", "3", "4", "5", "6", "7", "8", "9">>

RECURSIVE Str(_)
Str(n) == IF n < 10 THEN Digits[n + 1] ELSE Str(n \div 10) \o Digits[(n % 10) + 1]

\* ', '.join(parts)
RECURSIVE Join(_)
Join(parts) ==
    IF parts = <<>> THEN ""
    ELSE IF Len(parts) = 1 THEN parts[1]
    ELSE parts[1] \o ", " \o Join(Tail(parts))

\* combination_name (data.py:24)
CombinationName(dims) == Join(AdditionalDimensions(dims))

\* combo_key (data.py:25)
ComboKey(c) == Join([j \in DOMAIN c |-> Str(c[j])])

\* full_slice of one combination (data.py:29-32)
OuterFullSlice(data, dims, c) ==
    LET add == AdditionalDimensions(dims)
        Hits(k) == {j \in DOMAIN add : IndexOf(varDims, add[j]) = k - 1}
        Last(S) == CHOOSE j \in S : \A i \in S : i <= j
    IN  [k \in 1 .. Ndim(data) |->
            IF Hits(k) = {} THEN Full ELSE c[Last(Hits(k))]]

\* d[name][key] = value on a dictionary of dictionaries (data.py:35)
SetDefaultPut(d, name, key, value) ==
    LET inner == IF name \in DOMAIN d THEN d[name] ELSE <<>>
    IN  (name :> ((key :> value) @@ inner)) @@ d

\* A caller runs check_variable_conditions_expanded(dataset, variable,
\* check_dims, check_func): data.py:11-22
CallExpanded ==
    /\ pc = "start"
    /\ mode = "expanded"
    /\ combos' = Combinations(checkDims)
    /\ ci' = 0
    /\ combination_dict' = <<>>
    /\ pc' = "outer"
    /\ UNCHANGED <<suiteVars, fnVars>>
    /\ UNCHANGED <<varDims, dimSize, checkDims, mode, fnKind, error, innerDims,
                   innerData, hasCombo, combo, index_shapes, ii, results, calls,
                   runs>>

\* The outer loop takes its next combination, slices the data and enters
\* the inner scan (data.py:23-36)
OuterStep ==
    /\ pc = "outer"
    /\ ci < Len(combos)
    /\ LET c == combos[ci + 1]
           full_slice == OuterFullSlice(FullView, checkDims, c)
       IN  InnerEnter(GetItem(FullView, full_slice), CheckDimsSlice(checkDims),
                      TRUE, c)
    /\ UNCHANGED <<suiteVars, fnVars>>
    /\ UNCHANGED <<varDims, dimSize, checkDims, mode, fnKind, combos, ci,
                   combination_dict>>

\* The loop of check_variable_conditions is over: it returns results
\* (data.py:104); in the expanded scan the result is stored under the
\* combination's key (data.py:35)
InnerReturn ==
    /\ pc = "inner"
    /\ ii = Prod(index_shapes)
    /\ IF mode = "inner"
       THEN /\ pc' = "done"
            /\ UNCHANGED <<ci, combination_dict>>
       ELSE /\ combination_dict' =
                  SetDefaultPut(combination_dict, CombinationName(checkDims),
                                ComboKey(combo), results)
            /\ ci' = ci + 1
            /\ pc' = "outer"
    /\ UNCHANGED <<suiteVars, fnVars>>
    /\ UNCHANGED <<varDims, dimSize, checkDims, mode, fnKind, error, combos,
                   innerDims, innerData, hasCombo, combo, index_shapes, ii,
                   results, calls, runs>>

\* The outer loop is over: return combination_dict (data.py:38)
OuterReturn ==
    /\ pc = "outer"
    /\ ci = Len(combos)
    /\ pc' = "done"
    /\ UNCHANGED <<suiteVars, fnVars>>
    /\ UNCHANGED <<varDims, dimSize, checkDims, mode, fnKind, error, combos, ci,
                   combination_dict, innerDims, innerData, hasCombo, combo,
                   index_shapes, ii, results, calls, runs>>

----------------------------------------------------------------------------
(* The scans of one variable *)

\* The scans read a dimension's name only to tell the x, y and t dimensions
\* from the others, so the names follow the order of declaration: the first
\* dimension that is none of x, y, t is member and the second lev, the first
\* dimension among x, y, t is time and the second lat
Before(s, a, b) ==
    b \in Range(s) => a \in Range(s) /\ IndexOf(s, a) < IndexOf(s, b)

\* The dimension tuples a variable can declare
DimTuples ==
    {s \in UNION {[1 .. k -> DimNames] : k \in 1 .. MaxRank} :
        IsInjective(s) /\ Before(s, "member", "lev") /\ Before(s, "time", "lat")}

\* The check_dims lists over a variable's dimensions
CheckDimLists(dims) ==
    {s \in UNION {[1 .. k -> Range(dims)] : k \in 0 .. Len(dims)} : IsInjective(s)}

\* No check of the suite is running
SuiteIdle ==
    /\ suite = "idle"
    /\ step = 0
    /\ nResults = 0
    /\ reports = <<>>
    /\ last = [check |-> "", parameter |-> "", fault |-> "none", anomalies |-> 0,
               decided |-> FALSE, ctx |-> [score |-> 0, out_of |-> 0,
               messages |-> <<>>, coordinates |-> <<>>], escaped |-> "",
               dumps |-> {}]

\* No helper function has been applied
FnIdle ==
    /\ called = ""
    /\ input = <<>>
    /\ output = <<>>

Init ==
    /\ SuiteIdle
    /\ FnIdle
    /\ varDims \in DimTuples
    /\ dimSize \in [DimNames -> 1 .. MaxDimSize]
    /\ \A d \in DimNames \ Range(varDims) : dimSize[d] = 1
    /\ Prod([p \in DOMAIN varDims |-> dimSize[varDims[p]]]) <= MaxCells
    /\ checkDims \in CheckDimLists(varDims)
    /\ mode \in {"inner", "expanded"}
    /\ fnKind \in FnKinds
    /\ pc = "start"
    /\ error = ""
    /\ combos = <<>>
    /\ ci = 0
    /\ combination_dict = <<>>
    /\ innerDims = <<>>
    /\ innerData = <<>>
    /\ hasCombo = FALSE
    /\ combo = <<>>
    /\ index_shapes = <<>>
    /\ ii = 0
    /\ results = <<>>
    /\ calls = <<>>
    /\ runs = <<>>

Next ==
    \/ CallInner
    \/ InnerStep
    \/ InnerReturn
    \/ CallExpanded
    \/ OuterStep
    \/ OuterReturn

Spec == Init /\ [][Next]_vars

----------------------------------------------------------------------------
(* Properties of the scan engine *)

MaskKinds == {"mask_scores", "mask_scalar", "mask_none"}

\* The sizes of a list of dimensions
SizesOf(dims) == [j \in DOMAIN dims |-> dimSize[dims[j]]]

\* The position of an index tuple in the row-major order of a shape
RowMajorRank(indices, shape) ==
    LET RECURSIVE R(_)
        R(j) == IF j = 0 THEN 0 ELSE R(j - 1) * shape[j] + indices[j]
    IN  R(Len(shape))

\* The slice that fixes the listed dimensions at the indices and keeps the
\* full range on every other dimension of the variable
SliceFixing(dims, indices) ==
    [p \in DOMAIN varDims |->
        IF varDims[p] \in Range(dims)
        THEN indices[IndexOf(dims, varDims[p]) + 1]
        ELSE Full]

\* C1: in an inner scan called without a data override, the k-th call of
\* check_func is for the k-th tuple, in row-major order, of the Cartesian
\* product of the index ranges of check_dims; when the scan returns there has
\* been one call per tuple; each call receives the slice that fixes exactly
\* the check_dims at the tuple's indices; and the scan ends early only by
\* the TypeError of a mask that check_func returned without its values.
C1_InnerScanVisitsProductInRowMajorOrder ==
    mode = "inner" =>
        /\ pc = "raised" => fnKind = "mask_bare" /\ error = "TypeError"
        /\ pc = "done" => Len(calls) = Prod(SizesOf(checkDims))
        /\ \A k \in DOMAIN calls :
              /\ Len(calls[k].indices) = Len(checkDims)
              /\ \A j \in DOMAIN checkDims :
                    calls[k].indices[j] \in 0 .. dimSize[checkDims[j]] - 1
              /\ RowMajorRank(calls[k].indices, SizesOf(checkDims)) = k - 1
              /\ calls[k].slice = SliceFixing(checkDims, calls[k].indices)

\* C1 witness: an inner scan over two dimensions, listed against the order
\* in which the variable declares them, has returned after four calls.
C1_Witness ==
    /\ mode = "inner"
    /\ pc = "done"
    /\ Len(varDims) = 3
    /\ Len(checkDims) = 2
    /\ IndexOf(varDims, checkDims[1]) > IndexOf(varDims, checkDims[2])
    /\ Len(calls) = 4

\* The combinations the expanded scan has to visit, with their string keys
AdditionalOf(dims) == SelectSeq(dims, LAMBDA d : d \notin {"lon", "lat", "time"})

BasicOf(dims) == SelectSeq(dims, LAMBDA d : d \in {"lon", "lat", "time"})

\* C2 (as claimed): when the expanded scan has ended, the inner scan over
\* the basic dims has been run exactly once for every element, in order, of
\* the Cartesian product of the index ranges of the additional dims, and the
\* result holds one entry per combination under pairwise distinct keys, as
\* many as the product of the additional dimensions' sizes.
C2_OneInnerScanAndOneEntryPerCombination ==
    (mode = "expanded" /\ pc \in {"done", "raised"}) =>
        LET add == AdditionalOf(checkDims)
            n == Prod(SizesOf(add))
            entries == IF combination_dict = <<>> THEN {}
                       ELSE DOMAIN combination_dict[CombinationName(checkDims)]
        IN  /\ Len(runs) = n
            /\ \A k \in DOMAIN runs :
                  /\ runs[k].dims = BasicOf(checkDims)
                  /\ RowMajorRank(runs[k].combo, SizesOf(add)) = k - 1
            /\ Cardinality(entries) = n
            /\ \A k \in DOMAIN runs : ComboKey(runs[k].combo) \in entries

\* The dimensions the components of a recorded index tuple denote: the
\* additional dims for the outer combination, the scanned dims for the
\* indices, the remaining dims of the variable for a cell position
Denoted(e) ==
    LET rest == SelectSeq(varDims, LAMBDA d : d \notin Range(checkDims))
        outer == IF mode = "expanded" THEN AdditionalOf(checkDims) ELSE <<>>
        inner == IF mode = "expanded" THEN BasicOf(checkDims) ELSE checkDims
    IN  CASE e.arity = 1 -> inner
          [] e.arity = 2 -> outer \o inner
          [] OTHER -> outer \o inner \o rest

InBounds(e) ==
    /\ Len(e.coord) = Len(Denoted(e))
    /\ \A k \in DOMAIN e.coord :
          e.coord[k] >= 0 /\ e.coord[k] < dimSize[Denoted(e)[k]]

\* Every element of every list stored in the dictionary of the expanded scan
Stored(d) ==
    UNION {UNION {Range(d[name][key]) : key \in DOMAIN d[name]} : name \in DOMAIN d}

\* C3 (as claimed): every index tuple a scan returns is in bounds: each
\* component is at least 0 and smaller than the size of the dimension it
\* denotes, in whatever order the variable declares its dimensions.
C3_ReturnedIndexTuplesInBounds ==
    pc = "done" =>
        IF mode = "inner"
        THEN \A k \in DOMAIN results : InBounds(results[k])
        ELSE \A e \in Stored(combination_dict) : InBounds(e)

\* C4 (as claimed): every coordinate an inner scan records on behalf of the
\* expanded scan starts with the outer combination of that run, for every
\* kind of outcome.
C4_CoordinatesStartWithCombo ==
    (mode = "expanded" /\ pc \in {"inner", "done"}) =>
        \A k \in DOMAIN results :
            /\ Len(results[k].coord) >= Len(combo)
            /\ SubSeq(results[k].coord, 1, Len(combo)) = combo

\* C5: when check_func returns booleans, the result list is exactly the
\* index tuples of the calls that returned true, in the order of the calls,
\* each recorded without a value.
C5_BooleanRecordsIndicesIffTrue ==
    fnKind = "bool" =>
        LET hits == SelectSeq(calls, LAMBDA c : c.out.b)
        IN  results = [k \in DOMAIN hits |->
                          [arity |-> 1, coord |-> hits[k].indices,
                           value |-> <<>>, score |-> <<>>]]

\* C5 witness: a scan with boolean outcomes has returned after a call that
\* returned true and a call that returned false.
C5_Witness ==
    /\ fnKind = "bool"
    /\ pc = "done"
    /\ \E i, j \in DOMAIN calls : calls[i].out.b /\ ~calls[j].out.b
    /\ Len(results) >= 1

\* The entries one call with a mask outcome has to add: one per true cell
\* in row-major order, with the scan indices (after the outer combination,
\* when there is one) followed by the cell position, the slice value at the
\* cell, and the score at the cell, the scalar score, or no score
MaskEntriesOf(c) ==
    LET cells == SelectSeq(NdIndex(Shape(c.slice)), LAMBDA x : x \in c.out.mask)
        ValueAt(x) == DataAt(GetItem(c.slice, x))
    IN  [k \in DOMAIN cells |->
            [arity |-> 3,
             coord |-> (IF mode = "expanded" THEN combo ELSE <<>>)
                          \o c.indices \o cells[k],
             value |-> <<ValueAt(cells[k])>>,
             score |-> CASE fnKind = "mask_scores" -> <<ScoreOf(ValueAt(cells[k]))>>
                         [] fnKind = "mask_scalar" -> <<c.out.n>>
                         [] OTHER -> <<>>]]

\* C6: when check_func returns a boolean mask with the slice values and a
\* score array, a scalar score or no score, the result list holds exactly
\* one entry per true cell of every call, in order: the coordinate is the
\* scan indices followed by the cell position, the value is the slice value
\* at the cell, the score is the score at the cell, the scalar, or absent.
C6_MaskRecordsOneEntryPerTrueCell ==
    fnKind \in MaskKinds =>
        results = Flatten([k \in DOMAIN calls |-> MaskEntriesOf(calls[k])])

\* C6 witness: a scan with mask outcomes and a score array has returned; one
\* call had a true and a false cell and the scan recorded an entry.
C6_Witness ==
    /\ fnKind = "mask_scores"
    /\ pc = "done"
    /\ \E k \in DOMAIN calls :
          /\ calls[k].out.mask # {}
          /\ calls[k].out.mask # Range(Cells(calls[k].slice))
    /\ Len(results) >= 1

\* C7 (as claimed): when check_func returns a numeric scalar, an integer or
\* a float, the result list holds one (coordinate, value) entry per call,
\* with the scalar as value and the indices (after the combo, when one is
\* supplied) as coordinate.
C7_ScalarRecordsOneEntryPerCall ==
    fnKind \in {"int", "float"} =>
        results = [k \in DOMAIN calls |->
                      [arity |-> 2,
                       coord |-> (IF mode = "expanded" THEN combo ELSE <<>>)
                                    \o calls[k].indices,
                       value |-> <<calls[k].out.n>>, score |-> <<>>]]

\* C8 (as claimed): once check_func has returned an outcome that is no
\* boolean, no boolean mask and no numeric scalar, the scan has raised.
C8_UnsupportedOutcomeRaises ==
    (\E k \in DOMAIN calls : calls[k].out.type = "other") => pc = "raised"

----------------------------------------------------------------------------
(* compliance_checker's TestCtx as the checks use it, and ExtendedTestCtx *)

\* A message: its text and the count the text carries, <<n>> or <<>>
Msg(text, count) == [text |-> text, count |-> count]

\* ExtendedTestCtx(...) (auxiliar.py:101-109)
NewCtx == [score |-> 0, out_of |-> 0, messages |-> <<>>, coordinates |-> <<>>]

\* TestCtx.add_failure(message)
AddFailure(ctx, msg) ==
    [ctx EXCEPT !.out_of = @ + 1, !.messages = Append(@, msg)]

\* TestCtx.add_pass()
AddPass(ctx) == [ctx EXCEPT !.out_of = @ + 1, !.score = @ + 1]

\* ctx.messages.append(message)
AddMessage(ctx, msg) == [ctx EXCEPT !.messages = Append(@, msg)]

\* n anomaly records of one name
Coordinates(name, n) == [k \in 1 .. n |-> name]

\* The file dump_data_file_extended writes (auxiliar.py:48-53), after the
\* directory and the dataset's name
ReportFile(check_name, options) == check_name \o "_" \o options \o "_fail.txt"

\* ctx.summarize() (auxiliar.py:129-141) raises TypeError when the context
\* holds an anomaly record whose values are not strings: coordinates_to_string
\* evaluates ',' in val_score on each of them (line 122)
SummarizeRaises(ctx, stringValues) == ctx.coordinates # <<>> /\ ~stringValues

\* dump_data_file_extended(dataset, variable, check_name, ctx, options)
\* (auxiliar.py:37-75): the file it opens for writing, the failures and the
\* anomaly records the context holds at that moment, and the exception of
\* its last line, which leaves it after the file was created
dump_data_file_extended(check_name, ctx, options, stringValues) ==
    [file |-> ReportFile(check_name, options),
     failures |-> ctx.out_of - ctx.score,
     anomalies |-> Len(ctx.coordinates),
     raised |-> IF SummarizeRaises(ctx, stringValues) THEN "TypeError" ELSE ""]

\* A check ends by dumping its context: the exception of the dump leaves it
GivesDumped(ctx, check_name) ==
    [ctx |-> ctx,
     escaped |-> dump_data_file_extended(check_name, ctx, "", FALSE).raised,
     files |-> {dump_data_file_extended(check_name, ctx, "", FALSE)}]

\* open(filename, "w") of every dump of an invocation: the file holds what
\* this invocation wrote, whatever it held before
WriteReports(files, by) ==
    [path \in DOMAIN reports \cup {d.file : d \in files} |->
        IF path \in {d.file : d \in files} THEN by ELSE reports[path]]

\* What one invocation of a check gives: the context it built, the exception
\* that left it ("" when it returned the context), the files it wrote
Gives(ctx, escaped, files) == [ctx |-> ctx, escaped |-> escaped, files |-> files]

----------------------------------------------------------------------------
(* The detector checks.  fault names the first place at which the dataset   *)
(* makes the check raise: "none", "axes" (axis resolution), "compute"       *)
(* (the check's own computation on the data), "scan" (inside the scan)      *)

\* check_constants (check_constant.py:33-76); n = len(values), the constant
\* slices the scan found
check_constants(fault, n) ==
    IF fault # "none"
    THEN Gives(AddFailure(NewCtx, Msg("Error during constant value check", <<>>)),
               "", {})
    ELSE IF n > 0
    THEN GivesDumped(AddFailure([NewCtx EXCEPT !.coordinates =
                                    Coordinates("constant_values", n)],
                                Msg("Constant values detected", <<n>>)),
                     "check_constant")
    ELSE Gives(AddMessage(AddPass(NewCtx),
                          Msg("No constant values detected in the dataset.", <<>>)),
               "", {})

\* check_nan_inf (check_nan_inf.py:38-108); n = len(coord_list), the NaN or
\* Inf cells of the data
check_nan_inf(parameter, fillIsNaN, fault, n) ==
    IF fillIsNaN
    THEN Gives(AddFailure(NewCtx, Msg("Warning: _FillValue is NaN.", <<>>)), "", {})
    ELSE IF fault # "none"
    THEN \* the handler adds the failure and falls through to "if check:",
         \* where check was never assigned
         Gives(AddFailure(NewCtx, Msg("Error during " \o parameter \o " check", <<>>)),
               "UnboundLocalError", {})
    ELSE IF n > 0
    THEN GivesDumped(AddFailure([NewCtx EXCEPT !.coordinates = Coordinates(parameter, n)],
                                Msg(parameter \o " values detected", <<n>>)),
                     "check_nan_inf")
    ELSE Gives(AddPass(AddMessage(NewCtx,
                          Msg("No " \o parameter \o " detected in the dataset.", <<>>))),
               "", {})

\* detect_changes_in_values that puts the first position in front of every
\* list of two or more counts
DetectChangesAlwaysFirst(values) ==
    IF values = <<>> THEN <<>>
    ELSE LET non_zero_diff ==
                SelectSeq([i \in 1 .. Len(values) |-> i],
                          LAMBDA i : i > 1 /\ values[i] - values[i - 1] # 0)
         IN  IF Len(values) > 1 THEN <<1>> \o non_zero_diff ELSE non_zero_diff

\* detect_changes_in_values that never adds the first position
DetectChangesWithoutFirst(values) ==
    SelectSeq([i \in 1 .. Len(values) |-> i],
              LAMBDA i : i > 1 /\ values[i] - values[i - 1] # 0)

\* detect_changes_in_values (check_fill_missing.py:20-51) on the counts of
\* the (coordinate, count) pairs: the positions (1-based) it returns
detect_changes_in_values(values) ==
    IF values = <<>> THEN <<>>
    ELSE LET non_zero_diff ==
                SelectSeq([i \in 1 .. Len(values) |-> i],
                          LAMBDA i : i > 1 /\ values[i] - values[i - 1] # 0)
         IN  IF Len(values) > 1 /\ values[1] # values[2]
             THEN <<1>> \o non_zero_diff
             ELSE non_zero_diff

\* check_fillvalues_timeseries (check_fill_missing.py:80-180); hasFill and
\* hasMissing say whether the variable has _FillValue and missing_value,
\* same whether the two are equal, flattened is the list of the counts the
\* scan returned
check_fillvalues_timeseries(parameter, fault, hasFill, hasMissing, same, flattened) ==
    LET ctx0 == IF hasFill /\ hasMissing /\ same
                THEN AddMessage(NewCtx,
                        Msg("Warning: _FillValue and missing_value are the same.", <<>>))
                ELSE NewCtx
        detected_diff == detect_changes_in_values(flattened)
    IN  IF fault = "axes" THEN Gives(NewCtx, "ValueError", {})
        ELSE IF parameter = "FillValue" /\ ~hasFill
        THEN Gives(ctx0, "ValueError", {})
        ELSE IF parameter = "MissingValue" /\ ~hasMissing
        THEN Gives(AddMessage(AddPass(ctx0),
                      Msg(parameter \o " not found in the variable attributes.", <<>>)),
                   "", {})
        ELSE IF fault # "none"
        THEN Gives(AddFailure(ctx0, Msg("Error during " \o parameter \o " check", <<>>)),
                   "", {})
        ELSE IF Len(flattened) > 0 /\ Len(detected_diff) = 0
        THEN Gives(AddMessage(AddPass([ctx0 EXCEPT !.coordinates =
                                          Coordinates(parameter, Len(flattened))]),
                      Msg(parameter \o " are constant. Number", <<Len(flattened)>>)),
                   "", {})
        ELSE IF Len(flattened) > 0
        THEN GivesDumped(AddFailure([ctx0 EXCEPT !.coordinates =
                                        Coordinates(parameter, Len(detected_diff))],
                            Msg(parameter \o " are not constant. Number of difference",
                                <<Len(detected_diff)>>)),
                         "check_fillvalues")
        ELSE Gives(AddMessage(AddPass(ctx0),
                      Msg("No anomalous " \o parameter \o " detected in the dataset.", <<>>)),
                   "", {})

\* check_outliers (detect_physically_impossible_outlier.py:241-304);
\* matching = len(matching_vars), n = len(outliers['coordinates_indices'])
check_outliers(matching, fault, n) ==
    IF matching # 1
    THEN Gives(AddFailure(NewCtx, Msg("Error getting thresholds", <<>>)), "", {})
    ELSE IF fault # "none"
    THEN Gives(AddFailure(NewCtx, Msg("Error preparing results", <<>>)), "", {})
    ELSE IF n > 0
    THEN GivesDumped(AddFailure([NewCtx EXCEPT !.coordinates = Coordinates("outlier", n)],
                                Msg("Physically impossible outliers detected", <<n>>)),
                     "check_physically_impossible_outliers")
    ELSE Gives(AddPass(AddMessage(NewCtx,
                  Msg("No physically impossible outliers detected in the dataset.", <<>>))),
               "", {})

\* check_spatial_statistical_outliers
\* (check_spatial_statistical_outliers.py:93-184); nmin and nmax are
\* len(flattened_min) and len(flattened_max)
check_spatial_statistical_outliers(parameter, fault, nmin, nmax) ==
    IF fault = "axes" THEN Gives(NewCtx, "ValueError", {})
    ELSE IF fault = "compute"
    THEN \* the first handler adds a failure and goes on; max_ts was never
         \* assigned, so the second try block raises and its handler returns
         Gives(AddFailure(AddFailure(NewCtx,
                   Msg("Error during " \o parameter \o " condition check", <<>>)),
                   Msg("Error during outlier detection", <<>>)),
               "", {})
    ELSE IF fault = "scan"
    THEN Gives(AddFailure(NewCtx, Msg("Error during outlier detection", <<>>)), "", {})
    ELSE IF nmin + nmax > 0
    THEN LET \* extract_coordinates_from_indices(flattened, ...) and add_failure
             c1 == AddFailure([NewCtx EXCEPT !.coordinates =
                                  Coordinates("min", nmin) \o Coordinates("max", nmax)],
                              Msg("Outliers detected", <<nmin + nmax>>))
             \* ctx_min is ctx itself: its coordinates are replaced, and
             \* extending its messages by themselves doubles them
             c2 == [c1 EXCEPT !.coordinates = Coordinates("min", nmin)]
             c3 == IF nmin > 0
                   THEN LET m == AddMessage(c2,
                                    Msg("Outliers detected in minimum time series", <<nmin>>))
                        IN  [m EXCEPT !.messages = @ \o @]
                   ELSE c2
             c4 == [c3 EXCEPT !.coordinates = Coordinates("max", nmax)]
             c5 == IF nmax > 0
                   THEN LET m == AddMessage(c4,
                                    Msg("Outliers detected in maximum time series", <<nmax>>))
                        IN  [m EXCEPT !.messages = @ \o @]
                   ELSE c4
             c6 == AddPass(AddMessage(c5,
                      Msg("No outliers detected in the dataset based on " \o parameter, <<>>)))
             \* the values of these records are strings: the dumps return
             dump_min == dump_data_file_extended(
                             "check_spatial_statistical_outliers_min_series",
                             c3, parameter, TRUE)
             dump_max == dump_data_file_extended(
                             "check_spatial_statistical_outliers_max_series",
                             c5, parameter, TRUE)
         IN  Gives(c6, "",
                   (IF nmin > 0 THEN {dump_min} ELSE {})
                   \cup
                   (IF nmax > 0 THEN {dump_max} ELSE {}))
    ELSE Gives(NewCtx, "", {})

----------------------------------------------------------------------------
(* check_Data_Plausibility: the suite runs its enabled checks in order      *)
(* (wcrp_data.py:94-210)                                                    *)

\* No scan of the scan engine is running
ScanIdle ==
    /\ varDims = <<"time">>
    /\ dimSize = [d \in DimNames |-> 1]
    /\ checkDims = <<>>
    /\ mode = "inner"
    /\ fnKind = "bool"
    /\ pc = "idle"
    /\ error = ""
    /\ combos = <<>>
    /\ ci = 0
    /\ combination_dict = <<>>
    /\ innerDims = <<>>
    /\ innerData = <<>>
    /\ hasCombo = FALSE
    /\ combo = <<>>
    /\ index_shapes = <<>>
    /\ ii = 0
    /\ results = <<>>
    /\ calls = <<>>
    /\ runs = <<>>

LastStep == 8

\* variable_id = getattr(ds, "variable_id", None) (wcrp_data.py:107)
variable_id == "tas"

\* A check has ended: the suite appends its result and goes on, or the
\* exception that left the check leaves the suite.  anomalies is the length
\* of the anomaly list the check computed; decided says that the check got
\* as far as deciding on that list with no error on the way
CheckEnds(check, parameter, fault, anomalies, decided, r) ==
    /\ last' = [check |-> check, parameter |-> parameter, fault |-> fault,
                anomalies |-> anomalies, decided |-> decided,
                ctx |-> r.ctx, escaped |-> r.escaped, dumps |-> r.files]
    /\ reports' = WriteReports(r.files, [variable |-> variable_id, check |-> check,
                                         parameter |-> parameter])
    /\ IF r.escaped = ""
       THEN /\ nResults' = nResults + 1
            /\ step' = step + 1
            /\ suite' = suite
       ELSE /\ suite' = "raised"
            /\ UNCHANGED <<nResults, step>>
    /\ UNCHANGED <<scanVars, fnVars>>

\* DATA001 and DATA002
RunCheckNanInf ==
    /\ suite = "running"
    /\ step \in {1, 2}
    /\ \E fillIsNaN \in BOOLEAN, fault \in {"none", "compute"}, n \in 0 .. MaxListLen :
          /\ (fillIsNaN \/ fault # "none") => n = 0
          /\ fillIsNaN => fault = "none"
          /\ LET parameter == IF step = 1 THEN "NaN" ELSE "Inf"
             IN  CheckEnds("check_nan_inf", parameter, fault, n,
                           ~fillIsNaN /\ fault = "none",
                           check_nan_inf(parameter, fillIsNaN, fault, n))

\* The lists of counts a scan can return
CountLists == UNION {[1 .. k -> 0 .. MaxFillCount] : k \in 0 .. MaxListLen}

\* DATA003 and DATA004
RunCheckFillvaluesTimeseries ==
    /\ suite = "running"
    /\ step \in {3, 4}
    /\ \E fault \in {"none", "axes", "scan"}, hasFill, hasMissing, same \in BOOLEAN,
          flattened \in CountLists :
          /\ fault # "none" => flattened = <<>>
          /\ same => hasFill /\ hasMissing
          /\ LET parameter == IF step = 3 THEN "FillValue" ELSE "MissingValue"
                 present == IF step = 3 THEN hasFill ELSE hasMissing
             IN  /\ ~present => flattened = <<>>
                 /\ fault = "scan" => present
                 /\ CheckEnds("check_fillvalues_timeseries", parameter, fault,
                              Len(detect_changes_in_values(flattened)),
                              fault = "none" /\ present,
                              check_fillvalues_timeseries(parameter, fault, hasFill,
                                                          hasMissing, same, flattened))

\* DATA005
RunCheckConstants ==
    /\ suite = "running"
    /\ step = 5
    /\ \E fault \in {"none", "axes", "scan"}, n \in 0 .. MaxListLen :
          /\ fault # "none" => n = 0
          /\ CheckEnds("check_constants", "", fault, n, fault = "none",
                       check_constants(fault, n))

\* DATA006
RunCheckOutliers ==
    /\ suite = "running"
    /\ step = 6
    /\ \E matching \in 0 .. 2, fault \in {"none", "prepare"}, n \in 0 .. MaxListLen :
          /\ (matching # 1 \/ fault # "none") => n = 0
          /\ matching # 1 => fault = "none"
          /\ CheckEnds("check_outliers", "", fault, n, matching = 1 /\ fault = "none",
                       check_outliers(matching, fault, n))

\* DATA007 and DATA008
RunCheckSpatialStatisticalOutliers ==
    /\ suite = "running"
    /\ step \in {7, 8}
    /\ \E fault \in {"none", "axes", "compute", "scan"}, nmin, nmax \in 0 .. MaxListLen :
          /\ fault # "none" => nmin = 0 /\ nmax = 0
          /\ nmin + nmax <= MaxListLen
          /\ LET parameter == IF step = 7 THEN "Z-Score" ELSE "IQR"
             IN  CheckEnds("check_spatial_statistical_outliers", parameter, fault,
                           nmin + nmax, fault = "none",
                           check_spatial_statistical_outliers(parameter, fault, nmin, nmax))

\* The check of this step is not enabled in the configuration
SkipCheck ==
    /\ suite = "running"
    /\ step <= LastStep
    /\ step' = step + 1
    /\ UNCHANGED <<suite, nResults, reports, last>>
    /\ UNCHANGED <<scanVars, fnVars>>

\* return results
SuiteReturn ==
    /\ suite = "running"
    /\ step = LastStep + 1
    /\ suite' = "returned"
    /\ UNCHANGED <<step, nResults, reports, last>>
    /\ UNCHANGED <<scanVars, fnVars>>

SuiteInit ==
    /\ ScanIdle
    /\ FnIdle
    /\ suite = "running"
    /\ step = 1
    /\ nResults = 0
    /\ reports = <<>>
    /\ last = [check |-> "", parameter |-> "", fault |-> "none", anomalies |-> 0,
               decided |-> FALSE, ctx |-> NewCtx, escaped |-> "", dumps |-> {}]

SuiteNext ==
    \/ RunCheckNanInf
    \/ RunCheckFillvaluesTimeseries
    \/ RunCheckConstants
    \/ RunCheckOutliers
    \/ RunCheckSpatialStatisticalOutliers
    \/ SkipCheck
    \/ SuiteReturn

SuiteSpec == SuiteInit /\ [][SuiteNext]_vars

----------------------------------------------------------------------------
(* Properties of the detector checks *)

Passes(ctx) == ctx.score

Failures(ctx) == ctx.out_of - ctx.score

\* C9 (as claimed): a detector check that completes without an error records
\* a pass and no failure when its anomaly list is empty, and a failure whose
\* message carries the number of anomalies, and no pass, when it is not.
C9_PassIffNoAnomalies ==
    last.decided =>
        IF last.anomalies = 0
        THEN Passes(last.ctx) = 1 /\ Failures(last.ctx) = 0
        ELSE /\ Failures(last.ctx) >= 1
             /\ Passes(last.ctx) = 0
             /\ \E k \in DOMAIN last.ctx.messages :
                   last.ctx.messages[k].count = <<last.anomalies>>

\* C10 (as claimed): when an exception is raised while check_constants,
\* check_nan_inf, check_fillvalues_timeseries or
\* check_spatial_statistical_outliers computes or scans its data, the check
\* returns a context with a failure and no pass, and no exception leaves it.
C10_ScanExceptionBecomesFailure ==
    (/\ last.check \in {"check_constants", "check_nan_inf",
                        "check_fillvalues_timeseries",
                        "check_spatial_statistical_outliers"}
     /\ last.fault \in {"compute", "scan"}) =>
        /\ last.escaped = ""
        /\ Failures(last.ctx) >= 1
        /\ Passes(last.ctx) = 0

\* C11 (as claimed): when the x, y or t axis of the dataset cannot be
\* resolved, check_constants, check_fillvalues_timeseries and
\* check_spatial_statistical_outliers return a context with a failure
\* message, no exception leaves the check, and the suite goes on.
C11_AxisFailureBecomesCheckFailure ==
    (/\ last.check \in {"check_constants", "check_fillvalues_timeseries",
                        "check_spatial_statistical_outliers"}
     /\ last.fault = "axes") =>
        /\ last.escaped = ""
        /\ Failures(last.ctx) >= 1
        /\ suite # "raised"

\* The last check was check_fillvalues_timeseries on a variable without the
\* attribute it checks: the dataset raised no error, and the check did not
\* get as far as deciding on the counts
AttributeAbsent ==
    /\ last.check = "check_fillvalues_timeseries"
    /\ last.fault = "none"
    /\ ~last.decided

\* C12 (as claimed): check_fillvalues_timeseries on a variable that lacks
\* the attribute being checked (_FillValue for FillValue, missing_value for
\* MissingValue) returns a pass with an informational message and no
\* failure, and raises nothing.
C12_AbsentAttributeIsAPass ==
    AttributeAbsent =>
        /\ last.escaped = ""
        /\ Passes(last.ctx) = 1
        /\ Failures(last.ctx) = 0
        /\ \E k \in DOMAIN last.ctx.messages :
              last.ctx.messages[k].text =
                  last.parameter \o " not found in the variable attributes."

----------------------------------------------------------------------------
(* get_thresholds_variable and check_units                                  *)
(* (detect_physically_impossible_outlier.py:20-104)                         *)

\* str.lower() on the variable names of the model
Lower(name) ==
    CASE name = "TAS_Threshold" -> "tas_threshold"
      [] name = "Lon" -> "lon"
      [] name = "LAT" -> "lat"
      [] name = "Time" -> "time"
      [] OTHER -> name

\* "threshold" in var_name.lower() on the variable names of the model
ContainsThreshold(name) == Lower(name) \in {"tas_threshold"}

\* The threshold table (the JSON file): standard name -> min, max, unit;
\* the numbers are in hundredths of the unit
Thresholds ==
    [air_temperature |-> [min |-> 15000, max |-> 35000, unit |-> "K"],
     cloud_area_fraction |-> [min |-> 0, max |-> 100, unit |-> "1"]]

\* One variable of the dataset: "" stands for an attribute the variable
\* does not have
ThresholdVariables ==
    [name : {"tas", "clt", "TAS_Threshold"},
     standard_name : {"", "air_temperature", "cloud_area_fraction", "height"},
     units : {"", "K", "degC", "%"}]

\* dataset.variables: at most MaxVars variables, each name once
ThresholdDatasets ==
    {d \in UNION {[1 .. k -> ThresholdVariables] : k \in 0 .. MaxVars} :
        \A i, j \in DOMAIN d : d[i].name = d[j].name => i = j}

\* matching_vars that takes every variable with a standard name of the table
MatchingVarsOfAnyName(variables) ==
    SelectSeq(variables, LAMBDA v : v.standard_name \in DOMAIN Thresholds)

\* matching_vars (lines 45-54)
MatchingVars(variables) ==
    SelectSeq(variables,
              LAMBDA v : /\ v.standard_name \in DOMAIN Thresholds
                         /\ ~ContainsThreshold(v.name))

\* check_units (lines 65-104)
check_units(units, thresholds_values) ==
    LET unit == thresholds_values.unit
        Scaled(f, u) == [min |-> thresholds_values.min * f,
                         max |-> thresholds_values.max * f, unit |-> u]
    IN  IF units = unit THEN thresholds_values
        ELSE IF /\ units \in {"C", "celsius", "Celsius", "c", "degC",
                              "degrees_Celsius", "degreesC", "degrees_C"}
                /\ unit \in {"Kelvin", "K", "kel", "degK", "degrees_Kelvin",
                             "degreesK", "degrees_K"}
        THEN [min |-> thresholds_values.min - 27315,
              max |-> thresholds_values.max - 27315, unit |-> "Celsius"]
        ELSE IF /\ units \in {"%", "percent", "Percent", "perc", "percentage",
                              "Percentage"}
                /\ unit \in {"l", "1", "fraction", "fractional"}
        THEN Scaled(100, "percent")
        ELSE IF units = "gr kg-1" /\ unit \in {"l", "1", "fraction", "fractional"}
        THEN Scaled(1000, "gr kg-1")
        ELSE IF units \in {"mm", "millimeter"} /\ unit = "m"
        THEN Scaled(1000, "mm")
        ELSE IF units = "J m**-2" /\ unit = "W m**-2"
        THEN Scaled(3600 * 24, "J m**-2 day**-1")
        ELSE thresholds_values

\* get_thresholds_variable (lines 20-63): the exception it raises ("" when
\* none), the standard name it looks up, the thresholds and the variable
get_thresholds_variable(variables) ==
    LET matching_vars == MatchingVars(variables)
        None == [raised |-> "", standard_name |-> "", thresholds |-> <<>>,
                 variable |-> ""]
    IN  IF Len(matching_vars) # 1
        THEN [None EXCEPT !.raised = "ValueError"]
        ELSE LET var == matching_vars[1]
                 \* standard_name is the one of the last variable appended
                 standard_name == matching_vars[Len(matching_vars)].standard_name
             IN  IF var.units = ""
                 THEN \* dataset.variables[var].units (line 77)
                      [None EXCEPT !.raised = "AttributeError",
                                   !.standard_name = standard_name]
                 ELSE [raised |-> "", standard_name |-> standard_name,
                       thresholds |-> check_units(var.units, Thresholds[standard_name]),
                       variable |-> var.name]

\* check_outliers on a dataset with the given variables: what it gives and
\* the thresholds it used (line 266, then as check_outliers above)
CheckOutliersOn(variables, fault, n) ==
    LET got == get_thresholds_variable(variables)
    IN  [gives |-> IF got.raised = "AttributeError"
                   THEN Gives(NewCtx, "AttributeError", {})
                   ELSE check_outliers(Len(MatchingVars(variables)), fault, n),
         got |-> got]

\* A caller runs check_outliers(dataset)
CallCheckOutliers ==
    /\ called = ""
    /\ called' = "check_outliers"
    /\ output' = CheckOutliersOn(input.variables, input.fault, input.n)
    /\ UNCHANGED input
    /\ UNCHANGED <<scanVars, suiteVars>>

ThresholdInit ==
    /\ ScanIdle
    /\ SuiteIdle
    /\ called = ""
    /\ output = <<>>
    /\ input \in [variables : ThresholdDatasets, fault : {"none", "prepare"},
                  n : 0 .. MaxListLen]
    /\ Len(MatchingVars(input.variables)) # 1 => input.fault = "none"
    /\ (Len(MatchingVars(input.variables)) # 1 \/ input.fault # "none") => input.n = 0

ThresholdNext == CallCheckOutliers

ThresholdSpec == ThresholdInit /\ [][ThresholdNext]_vars

\* The check returned a context with a failure and no pass, wrote no file
\* and raised nothing
FailsQuietly(gives) ==
    /\ gives.escaped = ""
    /\ Failures(gives.ctx) >= 1
    /\ Passes(gives.ctx) = 0
    /\ gives.files = {}

\* The thresholds the table lists under a standard name, in the units of
\* the variable
ListedFor(v) ==
    LET listed == Thresholds[v.standard_name]
    IN  CASE v.units = "degC" /\ listed.unit = "K" ->
                 [min |-> listed.min - 27315, max |-> listed.max - 27315]
          [] v.units = "%" /\ listed.unit = "1" ->
                 [min |-> listed.min * 100, max |-> listed.max * 100]
          [] OTHER -> [min |-> listed.min, max |-> listed.max]

----------------------------------------------------------------------------
(* Axis resolution: get_ds_dimensions and get_var_dimensions                *)
(* (utils/dimensions.py:2-57, 90-114)                                       *)

\* Python's None as a value of a dictionary
PyNone == "None"

\* One variable of the dataset: its name and its axis attribute, "" when it
\* has none
AxisVariables ==
    [name : {"lon", "lat", "time", "Lon", "rlon", "depth"},
     axis : {"", "X", "Y", "Z", "T"}]

\* dataset.variables: at most MaxAxisVars variables in the order of
\* iteration, each name once
AxisDatasets ==
    {d \in UNION {[1 .. k -> AxisVariables] : k \in 0 .. MaxAxisVars} :
        \A i, j \in DOMAIN d : d[i].name = d[j].name => i = j}

\* dimensions[key] = value on a dictionary, whether or not it has the key
DictPut(d, key, value) == (key :> value) @@ d

\* The axis attribute of one variable (lines 28-38)
AxisAttribute(dimensions, var) ==
    CASE var.axis = "X" -> DictPut(dimensions, "x", var.name)
      [] var.axis = "Y" -> DictPut(dimensions, "y", var.name)
      [] var.axis = "T" -> DictPut(dimensions, "time", var.name)
      [] var.axis = "Z" -> DictPut(dimensions, "z", var.name)
      [] OTHER -> dimensions

\* The common names of one role (lines 41-48)
CommonName(dimensions, var, key, names) ==
    IF dimensions[key] = PyNone /\ Lower(var.name) \in names
    THEN DictPut(dimensions, key, var.name)
    ELSE dimensions

\* The body of the loop over dataset.variables.items() (lines 27-48)
ResolveVariable(dimensions, var) ==
    LET d0 == AxisAttribute(dimensions, var)
        d1 == CommonName(d0, var, "x", {"lon", "longitude", "x"})
        d2 == CommonName(d1, var, "y", {"lat", "latitude", "y"})
        d3 == CommonName(d2, var, "t", {"time"})
    IN  CommonName(d3, var, "z", {"z", "depth", "level"})

\* dimensions after the loop and the member test (lines 17-51)
RECURSIVE ResolvedAfter(_, _)
ResolvedAfter(variables, n) ==
    IF n = 0
    THEN [key \in {"x", "y", "t", "z", "member"} |-> PyNone]
    ELSE ResolveVariable(ResolvedAfter(variables, n - 1), variables[n])

\* get_ds_dimensions (lines 2-57): the exception it raises ("" when none),
\* the dictionary it returns, and dimensions as it was after the loop
get_ds_dimensions(ds) ==
    LET looped == ResolvedAfter(ds.variables, Len(ds.variables))
        dimensions == IF ds.member THEN DictPut(looped, "member", "member")
                      ELSE looped
        Result(raised, value) ==
            [raised |-> raised, value |-> value, dimensions |-> dimensions]
    IN  IF "time" \notin DOMAIN dimensions
        THEN Result("KeyError", <<>>)
        ELSE IF PyNone \in {dimensions["x"], dimensions["y"], dimensions["time"]}
        THEN Result("ValueError", <<>>)
        ELSE Result("", [key \in {k \in DOMAIN dimensions : dimensions[k] # PyNone}
                            |-> dimensions[key]])

\* get_var_dimensions (lines 90-114) for a variable with dimensions var_dims
get_var_dimensions(ds, var_dims) ==
    LET got == get_ds_dimensions(ds)
        ds_dims == got.value
    IN  IF got.raised # ""
        THEN [raised |-> got.raised, value |-> <<>>]
        ELSE IF ~(\A dim \in var_dims : dim \in Range(ds_dims))
        THEN [raised |-> "ValueError", value |-> <<>>]
        ELSE [raised |-> "",
              value |-> [key \in {k \in DOMAIN ds_dims : ds_dims[k] \in var_dims}
                            |-> ds_dims[key]]]

\* The dimension tuples of the variables the model asks about: all the
\* coordinate variables of the dataset, those and a further dimension, or a
\* single one of them
VarDimsOf(ds) ==
    LET names == {ds.variables[i].name : i \in DOMAIN ds.variables}
    IN  {names, names \cup {"bnds"}} \cup {{n} : n \in names}

\* A caller runs get_ds_dimensions(dataset)
CallGetDsDimensions ==
    /\ called = ""
    /\ called' = "get_ds_dimensions"
    /\ output' = get_ds_dimensions(input)
    /\ UNCHANGED input
    /\ UNCHANGED <<scanVars, suiteVars>>

\* A caller runs get_var_dimensions(dataset, variable)
CallGetVarDimensions ==
    /\ called = ""
    /\ \E var_dims \in VarDimsOf(input) :
          /\ called' = "get_var_dimensions"
          /\ input' = [input EXCEPT !.var_dims = var_dims]
          /\ output' = get_var_dimensions(input, var_dims)
    /\ UNCHANGED <<scanVars, suiteVars>>

AxisInit ==
    /\ ScanIdle
    /\ SuiteIdle
    /\ called = ""
    /\ output = <<>>
    /\ input \in [variables : AxisDatasets, member : BOOLEAN, var_dims : {{}}]

AxisNext ==
    \/ CallGetDsDimensions
    \/ CallGetVarDimensions

AxisSpec == AxisInit /\ [][AxisNext]_vars

----------------------------------------------------------------------------
(* Properties of axis resolution *)

\* The axis value and the common names of a role
AxisOf(role) ==
    CASE role = "x" -> "X" [] role = "y" -> "Y" [] role = "t" -> "T" [] OTHER -> "Z"

NamesOf(role) ==
    CASE role = "x" -> {"lon", "longitude", "x"}
      [] role = "y" -> {"lat", "latitude", "y"}
      [] role = "t" -> {"time"}
      [] OTHER -> {"z", "depth", "level"}

\* The variables of a dataset, in iteration order, that an axis attribute
\* gives the role to, and those that the name matching gives it to
ByAxis(variables, role) == SelectSeq(variables, LAMBDA v : v.axis = AxisOf(role))

ByName(variables, role) ==
    SelectSeq(variables,
              LAMBDA v : \E n \in NamesOf(role) : Lower(v.name) = n)

\* The role resolves: an axis attribute or a name gives it to a variable
Resolves(variables, role) ==
    ByAxis(variables, role) # <<>> \/ ByName(variables, role) # <<>>

\* C14 (as claimed): get_ds_dimensions resolves by case-insensitive name
\* matching a role that no axis attribute assigned: when x, y and t resolve,
\* the call returns a map, and the map gives every role without an axis
\* attribute the first variable whose name matches; in particular a dataset
\* without axis attributes and with one variable each named for x, y and t
\* resolves to a map holding x, y and t.
C14_NameFallbackResolves ==
    (/\ called = "get_ds_dimensions"
     /\ \A role \in {"x", "y", "t"} : Resolves(input.variables, role)) =>
        /\ output.raised = ""
        /\ \A role \in {"x", "y", "t", "z"} :
              (/\ ByAxis(input.variables, role) = <<>>
               /\ ByName(input.variables, role) # <<>>) =>
                  /\ role \in DOMAIN output.value
                  /\ output.value[role] = ByName(input.variables, role)[1].name

\* C15 (as claimed): whenever x, y or t is unresolved after the axis
\* attributes and the names, get_ds_dimensions fails with the ValueError
\* 'Could not determine longitude, latitude, or time dimensions.' and
\* returns no map.
C15_UnresolvedAxisIsValueError ==
    (/\ called = "get_ds_dimensions"
     /\ \E role \in {"x", "y", "t"} : ~Resolves(input.variables, role)) =>
        output.raised = "ValueError"

\* C16 (as claimed): every map get_ds_dimensions returns has the keys x, y
\* and t, no key outside x, y, t, z, member, and no null value.
C16_ReturnedMapHasXYT ==
    (called = "get_ds_dimensions" /\ output.raised = "") =>
        /\ {"x", "y", "t"} \subseteq DOMAIN output.value
        /\ DOMAIN output.value \subseteq {"x", "y", "t", "z", "member"}
        /\ \A key \in DOMAIN output.value : output.value[key] # PyNone

\* The first variable, in iteration order, that an axis attribute or a name
\* gives the role to
FirstAssigned(variables, role) ==
    LET given == SelectSeq(variables,
                    LAMBDA v : \/ v.axis = AxisOf(role)
                               \/ \E n \in NamesOf(role) : Lower(v.name) = n)
    IN  given[1].name

\* C17 (as claimed): an axis attribute assigns a role only if the role is
\* not assigned yet: after the loop every role that resolves belongs to the
\* first variable, in iteration order, that an axis attribute or a name gave
\* it to; no later variable replaces it.
C17_FirstAssignmentIsKept ==
    called = "get_ds_dimensions" =>
        \A role \in {"x", "y", "z"} :
            Resolves(input.variables, role) =>
                output.dimensions[role] = FirstAssigned(input.variables, role)

\* C18 (as claimed): for every variable of a dataset whose axes resolve,
\* get_var_dimensions returns exactly the entries of the axis map whose
\* dimension is one of the variable's dimensions, also when the variable
\* has further dimensions that the axis map does not contain.
C18_VarDimensionsIsIntersection ==
    (/\ called = "get_var_dimensions"
     /\ get_ds_dimensions(input).raised = "") =>
        LET axis_map == get_ds_dimensions(input).value
        IN  /\ output.raised = ""
            /\ output.value =
                  [key \in {k \in DOMAIN axis_map : axis_map[k] \in input.var_dims}
                      |-> axis_map[key]]

----------------------------------------------------------------------------
(* detect_changes_in_values on (coordinate, value) pairs                    *)
(* (check_fill_missing.py:20-51).  The scan hands over the counts as        *)
(* floats; a float is modelled by its number of halves, an int by itself    *)

\* int(val) of a float that is not negative: truncation
PyInt(halves) == halves \div 2

\* The floats of the model: the counts 2, 3, 5, 7 and the number 2.5
FloatValues == {4, 5, 6, 10, 14}

\* The list of (coordinate, value) pairs a scan over the time dimension
\* returns for the values f: the coordinate of the i-th pair is the index
\* tuple (i - 1,)
PairList(f) == [i \in DOMAIN f |-> [coord |-> <<i - 1>>, val |-> f[i]]]

\* detect_changes_in_values on the pairs: the pairs it returns (lines 30-51)
DetectedPairs(coordinate_values) ==
    LET converted == [i \in DOMAIN coordinate_values |->
                         [coord |-> coordinate_values[i].coord,
                          val |-> PyInt(coordinate_values[i].val)]]
        values == [i \in DOMAIN converted |-> converted[i].val]
        positions == detect_changes_in_values(values)
    IN  [k \in DOMAIN positions |-> converted[positions[k]]]

\* A caller runs detect_changes_in_values(coordinate_values)
CallDetectChangesInValues ==
    /\ called = ""
    /\ called' = "detect_changes_in_values"
    /\ output' = DetectedPairs(input)
    /\ UNCHANGED input
    /\ UNCHANGED <<scanVars, suiteVars>>

ChangesInit ==
    /\ ScanIdle
    /\ SuiteIdle
    /\ called = ""
    /\ output = <<>>
    /\ \E k \in 0 .. MaxPairs :
          \E f \in [1 .. k -> FloatValues] : input = PairList(f)

ChangesNext == CallDetectChangesInValues

ChangesSpec == ChangesInit /\ [][ChangesNext]_vars

----------------------------------------------------------------------------
(* Properties of detect_changes_in_values *)

\* The values of the pairs are counts: whole numbers
AreCounts(pairs) == \A i \in DOMAIN pairs : pairs[i].val % 2 = 0

\* The count of the pair at 0-based index i
CountAt(pairs, i) == pairs[i + 1].val \div 2

\* The list of the counts
CountsOf(pairs) == [i \in DOMAIN pairs |-> CountAt(pairs, i - 1)]

\* The 0-based indices of the pairs a list of returned pairs holds
FlaggedIndices(returned) == {returned[k].coord[1] : k \in DOMAIN returned}

\* The indices i >= 1 whose count differs from the count at i - 1
RunStarts(pairs) ==
    {i \in 1 .. Len(pairs) - 1 : CountAt(pairs, i) # CountAt(pairs, i - 1)}

\* The first count differs from the second
FirstDiffers(pairs) == Len(pairs) >= 2 /\ CountAt(pairs, 0) # CountAt(pairs, 1)

\* C19 (as claimed): detect_changes_in_values returns the empty list for a
\* constant sequence of counts, and for any sequence flags exactly the
\* indices i >= 1 whose count differs from the count at i - 1, and no other
\* index.
C19_FlagsOnlyRunStarts ==
    (called = "detect_changes_in_values" /\ AreCounts(input)) =>
        /\ RunStarts(input) = {} => output = <<>>
        /\ FlaggedIndices(output) = RunStarts(input)

\* C19 (amended): detect_changes_in_values returns the empty list for a
\* constant sequence of counts, and for any sequence flags exactly the
\* indices i >= 1 whose count differs from the count at i - 1, and index 0
\* as well when the first count differs from the second.
C19_FlagsRunStartsAndFirst ==
    (called = "detect_changes_in_values" /\ AreCounts(input)) =>
        /\ RunStarts(input) = {} => output = <<>>
        /\ FlaggedIndices(output) =
              RunStarts(input) \cup (IF FirstDiffers(input) THEN {0} ELSE {})

\* C19 witness: the counts 5, 5, 5, 7, 7, 3 gave the indices 3 and 5
C19_Witness ==
    /\ called = "detect_changes_in_values"
    /\ CountsOf(input) = <<5, 5, 5, 7, 7, 3>>
    /\ FlaggedIndices(output) = {3, 5}

\* C20: detect_changes_in_values returns, in input order and each once, the
\* (coordinate, count) pairs at every index whose count differs from its
\* predecessor, after the first pair if and only if there are two or more
\* pairs and the first count differs from the second; it returns the empty
\* list for an empty and for a one-element input.
C20_ReturnsChangedPairsInOrder ==
    (called = "detect_changes_in_values" /\ AreCounts(input)) =>
        LET Pair(i) == [coord |-> input[i + 1].coord, val |-> CountAt(input, i)]
            indices == [i \in 1 .. Len(input) |-> i - 1]
            changed == SelectSeq(indices, LAMBDA i : i \in RunStarts(input))
            expected == (IF FirstDiffers(input) THEN <<0>> ELSE <<>>) \o changed
        IN  /\ output = [k \in DOMAIN expected |-> Pair(expected[k])]
            /\ \A j, k \in DOMAIN output : output[j] = output[k] => j = k
            /\ Len(input) <= 1 => output = <<>>

\* C20 witness: of the counts 2, 3, 3, 5 the call returned the first pair,
\* the second and the fourth
C20_Witness ==
    /\ called = "detect_changes_in_values"
    /\ CountsOf(input) = <<2, 3, 3, 5>>
    /\ output = <<[coord |-> <<0>>, val |-> 2], [coord |-> <<1>>, val |-> 3],
                  [coord |-> <<3>>, val |-> 5]>>

----------------------------------------------------------------------------
(* check_all_constant and check_constants on the values of a variable       *)
(* (check_constant.py:20-76)                                                *)

\* np.nan as a cell value, next to the numbers 0 and 1
NaN == 1000

CellValues == {0, 1, NaN}

\* a == b on two floats: NaN equals nothing, itself included
PyEq(a, b) == a = b /\ a # NaN /\ b # NaN

\* The values of an array (a view of the variable) in row-major order; cells
\* holds the variable's values under the number DataAt gives the cell
Values(cells, slice) ==
    [k \in DOMAIN Cells(slice) |-> cells[CellValue(slice, Cells(slice)[k])]]

\* check_all_constant(data_slice) (check_constant.py:20-28); an array of no
\* dimension is a numpy scalar
check_all_constant(cells, data_slice) ==
    IF Ndim(data_slice) = 0 THEN TRUE
    ELSE IF Len(Values(cells, data_slice)) = 0 THEN FALSE
    ELSE \A k \in DOMAIN Values(cells, data_slice) :
            PyEq(Values(cells, data_slice)[k], Values(cells, data_slice)[1])

\* get_filtered_dimensions(dataset, variable) (dimensions.py:60-86)
get_filtered_dimensions ==
    SelectSeq(varDims, LAMBDA dim : dim \notin {DsDims.x, DsDims.y})

\* data_slice of one iteration of check_variable_conditions (data.py:58-61)
DataSlice(dims, indices) ==
    GetItem(FullView, InnerFullSlice(FullView, dims, indices))

\* values = check_variable_conditions(dataset, variable, check_dims,
\* check_all_constant): the index tuples whose slice gave True (data.py:56-75)
ConstantIndices(cells, check_dims) ==
    SelectSeq(NdIndex(IndexShapes(FullView, check_dims)),
              LAMBDA indices : check_all_constant(cells, DataSlice(check_dims, indices)))

\* dataset[variable][coord] raises IndexError when an index of coord is not
\* below the size of the axis of the variable at its position
GetByCoordRaises(coord) ==
    \E j \in DOMAIN coord : coord[j] >= dimSize[varDims[j]]

\* check_constants on the variable (check_constant.py:44-76), the dataset's
\* axes resolving
CheckConstantsOn(cells) ==
    LET detected == ConstantIndices(cells, get_filtered_dimensions)
        raising == SelectSeq([k \in DOMAIN detected |-> k],
                             LAMBDA k : GetByCoordRaises(detected[k]))
    IN  IF raising # <<>>
        THEN \* line 64 is outside the try block
             Gives([NewCtx EXCEPT !.coordinates =
                       Coordinates("constant_values", raising[1] - 1)],
                   "IndexError", {})
        ELSE check_constants("none", Len(detected))

\* A caller runs check_all_constant on one slice of the variable
CallCheckAllConstant ==
    /\ called = ""
    /\ pc = "idle"
    /\ \E dims \in CheckDimLists(varDims) :
          /\ IndexShapes(FullView, dims) # <<>> => Prod(IndexShapes(FullView, dims)) > 0
          /\ \E indices \in Range(NdIndex(IndexShapes(FullView, dims))) :
                output' = [data_slice |-> DataSlice(dims, indices),
                           value |-> check_all_constant(input, DataSlice(dims, indices))]
    /\ called' = "check_all_constant"
    /\ UNCHANGED input
    /\ UNCHANGED <<scanVars, suiteVars>>

\* A caller runs check_constants(dataset, variable)
CallCheckConstants ==
    /\ called = ""
    /\ pc = "idle"
    /\ called' = "check_constants"
    /\ output' = CheckConstantsOn(input)
    /\ UNCHANGED input
    /\ UNCHANGED <<scanVars, suiteVars>>

\* A variable of the dataset: its dimensions, their sizes (a dimension can be
\* empty) and its values
VariableInit ==
    /\ SuiteIdle
    /\ called = ""
    /\ output = <<>>
    /\ varDims \in DimTuples
    /\ dimSize \in [DimNames -> 0 .. MaxDimSize]
    /\ \A d \in DimNames \ Range(varDims) : dimSize[d] = 1
    /\ Prod([p \in DOMAIN varDims |-> dimSize[varDims[p]]]) <= MaxCells
    /\ input \in [1 .. Prod([p \in DOMAIN varDims |-> dimSize[varDims[p]]]) -> CellValues]
    /\ checkDims = <<>>
    /\ mode = "inner"
    /\ fnKind = "bool"
    /\ pc = "idle"
    /\ error = ""
    /\ combos = <<>>
    /\ ci = 0
    /\ combination_dict = <<>>
    /\ innerDims = <<>>
    /\ innerData = <<>>
    /\ hasCombo = FALSE
    /\ combo = <<>>
    /\ index_shapes = <<>>
    /\ ii = 0
    /\ results = <<>>
    /\ calls = <<>>
    /\ runs = <<>>

ConstantNext ==
    \/ CallCheckAllConstant
    \/ CallCheckConstants

ConstantSpec == VariableInit /\ [][ConstantNext]_vars

----------------------------------------------------------------------------
(* Properties of check_all_constant and check_constants *)

\* The values the cells of a slice hold, as a set
ValueSet(cells, slice) == Range(Values(cells, slice))

\* Every element of the slice equals its first element
AllEqualFirst(cells, slice) ==
    /\ Prod(Shape(slice)) > 0
    /\ Cardinality(ValueSet(cells, slice)) = 1
    /\ NaN \notin ValueSet(cells, slice)

\* The slices check_constants scans, one per index tuple of the variable's
\* dimensions other than x and y, that are constant
ConstantSlices(cells) ==
    LET dims == get_filtered_dimensions
    IN  {indices \in Range(NdIndex(IndexShapes(FullView, dims))) :
            LET slice == DataSlice(dims, indices)
            IN  Ndim(slice) = 0 \/ AllEqualFirst(cells, slice)}

\* C21 (as claimed): check_all_constant returns true for a scalar slice,
\* false for an empty array, and for every other array true if and only if
\* every element equals the first element (as floats: NaN equals nothing);
\* check_constants fails exactly when at least one scanned slice is
\* constant, with the number of constant slices in its message, and passes
\* otherwise.
C21_ConstantSlicesFail ==
    /\ called = "check_all_constant" =>
          output.value =
              IF Ndim(output.data_slice) = 0 THEN TRUE
              ELSE IF Prod(Shape(output.data_slice)) = 0 THEN FALSE
              ELSE AllEqualFirst(input, output.data_slice)
    /\ called = "check_constants" =>
          /\ output.escaped = ""
          /\ IF ConstantSlices(input) # {}
             THEN /\ Failures(output.ctx) = 1
                  /\ Passes(output.ctx) = 0
                  /\ output.ctx.messages =
                        <<Msg("Constant values detected",
                              <<Cardinality(ConstantSlices(input))>>)>>
             ELSE /\ Passes(output.ctx) = 1
                  /\ Failures(output.ctx) = 0

----------------------------------------------------------------------------
(* The Z-score condition of check_spatial_statistical_outliers on a slice   *)
(* (check_spatial_statistical_outliers.py:44-54, 121-124).  For whole       *)
(* numbers x of a slice of n cells with sum S and sum of squares Q, the     *)
(* mean is S/n and the standard deviation sqrt(n*Q - S*S)/n, so the score   *)
(* of x is (n*x - S)/sqrt(n*Q - S*S): a score is held as its numerator num  *)
(* and the square den2 of its denominator                                   *)

Score(nan, num, den2) == [nan |-> nan, num |-> num, den2 |-> den2]

RECURSIVE Sum(_)
Sum(s) == IF s = <<>> THEN 0 ELSE Head(s) + Sum(Tail(s))

\* n*n times the variance np.std(data_slice) is the root of
VarianceTimesN2(values) ==
    Len(values) * Sum([k \in DOMAIN values |-> values[k] * values[k]])
        - Sum(values) * Sum(values)

\* The thresholds a project configuration gives the Z-score check
\* (wcrp_data.py:182): any number of the TOML file, 5 when it gives none
ZThresholds == {-1, 0, 1, 5}

\* is_outlier with >= for >
IsOutlierAtLeast(zscore, threshold) ==
    IF zscore.nan THEN FALSE
    ELSE IF threshold <= 0 THEN TRUE
    ELSE zscore.num * zscore.num >= threshold * threshold * zscore.den2

\* is_outlier(zscore, threshold) for one cell (line 54): a comparison with
\* NaN is false
is_outlier(zscore, threshold) ==
    IF zscore.nan THEN FALSE
    ELSE IF threshold < 0 THEN TRUE
    ELSE zscore.num * zscore.num > threshold * threshold * zscore.den2

\* calculate_zscore(data_slice) on the values of the slice (lines 44-50)
calculate_zscore(values) ==
    IF values = <<>> \/ NaN \in Range(values)
    THEN \* mean and std are NaN, std == 0 is false
         [k \in DOMAIN values |-> Score(TRUE, 0, 1)]
    ELSE IF VarianceTimesN2(values) = 0
    THEN [k \in DOMAIN values |-> Score(FALSE, 0, 1)]
    ELSE [k \in DOMAIN values |->
             Score(FALSE, Len(values) * values[k] - Sum(values),
                   VarianceTimesN2(values))]

\* zscore_condition(data_slice) (lines 121-124): data_mask and zscores
zscore_condition(values, threshold) ==
    [data_mask |-> [k \in DOMAIN values |->
                       is_outlier(calculate_zscore(values)[k], threshold)],
     zscores |-> calculate_zscore(values)]

\* The scan applies zscore_condition to one slice of the variable
CallZscoreCondition ==
    /\ called = ""
    /\ pc = "idle"
    /\ \E dims \in CheckDimLists(varDims), threshold \in ZThresholds :
          /\ IndexShapes(FullView, dims) # <<>> => Prod(IndexShapes(FullView, dims)) > 0
          /\ \E indices \in Range(NdIndex(IndexShapes(FullView, dims))) :
                LET values == Values(input, DataSlice(dims, indices))
                IN  output' = [values |-> values, threshold |-> threshold,
                               out |-> zscore_condition(values, threshold)]
    /\ called' = "zscore_condition"
    /\ UNCHANGED input
    /\ UNCHANGED <<scanVars, suiteVars>>

ZscoreNext == CallZscoreCondition

ZscoreSpec == VariableInit /\ [][ZscoreNext]_vars

----------------------------------------------------------------------------
(* Properties of the Z-score condition *)

\* The standard deviation of the values is zero: there are values, they
\* are numbers and they are all the same
StdIsZero(values) ==
    /\ values # <<>>
    /\ NaN \notin Range(values)
    /\ Cardinality(Range(values)) = 1

\* Every cell has the score zero and no cell is flagged
ZeroScoresNoOutlier(out) ==
    /\ \A k \in DOMAIN out.zscores : ~out.zscores[k].nan /\ out.zscores[k].num = 0
    /\ \A k \in DOMAIN out.data_mask : ~out.data_mask[k]

----------------------------------------------------------------------------
(* check_nan_inf on the values of a variable, and its wrapper               *)
(* _check_no_nan_inf (check_nan_inf.py:20-108, check_no_nan_inf.py:11-28)   *)

MaxData == 3       \* most values of a variable given to check_nan_inf

\* np.inf and -np.inf as cell values
Inf == 1001

NegInf == -1001

FloatCells == {0, NaN, Inf, NegInf}

\* np.isnan(x)
IsNaN(x) == x = NaN

\* np.isinf(x)
IsInf(x) == x \in {Inf, NegInf}

\* coord_list (check_nan_inf.py:83-90): the positions of the NaN, or of the
\* Inf, values of the data
CoordList(data, parameter) ==
    SelectSeq([k \in DOMAIN data |-> k],
              LAMBDA k : IF parameter = "NaN" THEN IsNaN(data[k]) ELSE IsInf(data[k]))

\* check_nan_inf(dataset, variable, parameter) on a dataset (lines 56-108)
CheckNanInfOn(ds, parameter) ==
    IF ~ds.present
    THEN Gives(NewCtx, "KeyError", {})  \* dataset.variables[variable], line 65
    ELSE check_nan_inf(parameter, ds.fillIsNaN, "none",
                       Len(CoordList(ds.data, parameter)))

\* ctx.to_result(): the score, the number of checks, the messages
ToResult(ctx) == [value |-> <<ctx.score, ctx.out_of>>, msgs |-> ctx.messages]

\* _check_no_nan_inf that runs the Inf check first
CheckNoNanInfInfFirst(ds) ==
    IF ~ds.present THEN [results |-> <<>>, escaped |-> ""]
    ELSE IF CheckNanInfOn(ds, "Inf").escaped # ""
    THEN [results |-> <<>>, escaped |-> CheckNanInfOn(ds, "Inf").escaped]
    ELSE IF CheckNanInfOn(ds, "NaN").escaped # ""
    THEN [results |-> <<>>, escaped |-> CheckNanInfOn(ds, "NaN").escaped]
    ELSE [results |-> <<ToResult(CheckNanInfOn(ds, "Inf").ctx),
                        ToResult(CheckNanInfOn(ds, "NaN").ctx)>>,
          escaped |-> ""]

\* _check_no_nan_inf(ds, var_name, check_id, severity)
\* (check_no_nan_inf.py:11-28): the list it returns, or the exception of a
\* check_nan_inf call that leaves it
check_no_nan_inf(ds) ==
    IF ~ds.present THEN [results |-> <<>>, escaped |-> ""]
    ELSE IF CheckNanInfOn(ds, "NaN").escaped # ""
    THEN [results |-> <<>>, escaped |-> CheckNanInfOn(ds, "NaN").escaped]
    ELSE IF CheckNanInfOn(ds, "Inf").escaped # ""
    THEN [results |-> <<>>, escaped |-> CheckNanInfOn(ds, "Inf").escaped]
    ELSE [results |-> <<ToResult(CheckNanInfOn(ds, "NaN").ctx),
                        ToResult(CheckNanInfOn(ds, "Inf").ctx)>>,
          escaped |-> ""]

\* A caller runs check_nan_inf(dataset, variable, parameter)
CallCheckNanInf ==
    /\ called = ""
    /\ \E parameter \in {"NaN", "Inf"} :
          output' = [parameter |-> parameter, gives |-> CheckNanInfOn(input, parameter)]
    /\ called' = "check_nan_inf"
    /\ UNCHANGED input
    /\ UNCHANGED <<scanVars, suiteVars>>

\* A caller runs one of the wrappers, check_lat_no_nan_inf(ds) and the like
CallCheckNoNanInf ==
    /\ called = ""
    /\ called' = "_check_no_nan_inf"
    /\ output' = check_no_nan_inf(input)
    /\ UNCHANGED input
    /\ UNCHANGED <<scanVars, suiteVars>>

\* A dataset: whether it has the variable, whether the variable's _FillValue
\* is NaN, and the variable's values
NanInfInit ==
    /\ ScanIdle
    /\ SuiteIdle
    /\ called = ""
    /\ output = <<>>
    /\ \E present, fillIsNaN \in BOOLEAN, k \in 0 .. MaxData :
          \E data \in [1 .. k -> FloatCells] :
             /\ ~present => ~fillIsNaN /\ k = 0
             /\ input = [present |-> present, fillIsNaN |-> fillIsNaN, data |-> data]

NanInfNext ==
    \/ CallCheckNanInf
    \/ CallCheckNoNanInf

NanInfSpec == NanInfInit /\ [][NanInfNext]_vars

----------------------------------------------------------------------------
(* Properties of check_nan_inf *)

\* The variable exists, its values hold no NaN and no Inf, and its
\* _FillValue is not NaN
CleanVariable(ds) ==
    /\ ds.present
    /\ ~ds.fillIsNaN
    /\ \A k \in DOMAIN ds.data : ds.data[k] \notin {NaN, Inf, NegInf}

\* A result is good: every check it counts passed, and there is one
GoodResult(r) == r.value[1] = r.value[2] /\ r.value[2] >= 1

\* C23: for a variable whose data holds no NaN and no Inf (and whose
\* _FillValue is not NaN), check_nan_inf passes with an empty anomaly list for
\* parameter NaN and for parameter Inf; the wrapper _check_no_nan_inf returns
\* exactly two passing results, the NaN result first and the Inf result
\* second, when the variable exists, and an empty list when the variable is
\* not in the dataset.
C23_CleanVariablePasses ==
    /\ (called = "check_nan_inf" /\ CleanVariable(input)) =>
          /\ output.gives.escaped = ""
          /\ Passes(output.gives.ctx) = 1
          /\ Failures(output.gives.ctx) = 0
          /\ output.gives.ctx.coordinates = <<>>
          /\ output.gives.files = {}
    /\ (called = "_check_no_nan_inf" /\ CleanVariable(input)) =>
          /\ output.escaped = ""
          /\ Len(output.results) = 2
          /\ \A k \in 1 .. 2 : GoodResult(output.results[k])
          /\ output.results[1].msgs = <<Msg("No NaN detected in the dataset.", <<>>)>>
          /\ output.results[2].msgs = <<Msg("No Inf detected in the dataset.", <<>>)>>
    /\ (called = "_check_no_nan_inf" /\ ~input.present) =>
          output = [results |-> <<>>, escaped |-> ""]

\* C23 witness: the wrapper ran on a variable of three values that are all
\* numbers and returned two results
C23_Witness ==
    /\ called = "_check_no_nan_inf"
    /\ CleanVariable(input)
    /\ Len(input.data) = 3
    /\ Len(output.results) = 2

----------------------------------------------------------------------------
(* Properties of the report files *)

\* The context of the last invocation holds an error message
EndsInErrorMessage ==
    \E k \in DOMAIN last.ctx.messages :
        last.ctx.messages[k].text \in
            {"Error during constant value check", "Error getting thresholds",
             "Error preparing results", "Error during outlier detection",
             "Warning: _FillValue is NaN."}
            \cup {"Error during " \o p \o " check" :
                     p \in {"NaN", "Inf", "FillValue", "MissingValue"}}
            \cup {"Error during " \o p \o " condition check" :
                     p \in {"Z-Score", "IQR"}}

\* C24 (as claimed): a check writes its report file under reports/ only in
\* an invocation in which it has already recorded a failure for detected
\* anomalies; an invocation whose anomaly list is empty, or that ends in a
\* pass or in an error message, writes no file.
C24_ReportOnlyAfterFailure ==
    last.check # "" =>
        /\ \A d \in last.dumps :
              /\ last.anomalies > 0
              /\ d.anomalies > 0
              /\ d.failures >= 1
        /\ last.anomalies = 0 => last.dumps = {}
        /\ Passes(last.ctx) >= 1 => last.dumps = {}
        /\ EndsInErrorMessage => last.dumps = {}

----------------------------------------------------------------------------
(* Check invocations on one dataset, in any order, by the suite, by the     *)
(* wrappers or by any other caller: the files under reports/ stay           *)

MaxInvocations == 3  \* most check invocations of one behaviour

\* The variables of the dataset the checks are invoked on
CheckedVariables == {"tas", "lat"}

\* An invocation of a check on a variable has ended: the files it dumped
\* hold its report
InvocationEnds(variable, check, parameter, r) ==
    /\ last' = [check |-> check, parameter |-> parameter, fault |-> "none",
                anomalies |-> Len(r.ctx.coordinates), decided |-> TRUE,
                ctx |-> r.ctx, escaped |-> r.escaped, dumps |-> r.files]
    /\ reports' = WriteReports(r.files, [variable |-> variable, check |-> check,
                                         parameter |-> parameter])
    /\ step' = step + 1
    /\ nResults' = IF r.escaped = "" THEN nResults + 1 ELSE nResults
    /\ UNCHANGED suite
    /\ UNCHANGED <<scanVars, fnVars>>

InvokeCheckNanInf ==
    /\ suite = "invoking"
    /\ step < MaxInvocations
    /\ \E variable \in CheckedVariables, parameter \in {"NaN", "Inf"}, n \in 0 .. 1 :
          InvocationEnds(variable, "check_nan_inf", parameter,
                         check_nan_inf(parameter, FALSE, "none", n))

InvokeCheckFillvaluesTimeseries ==
    /\ suite = "invoking"
    /\ step < MaxInvocations
    /\ \E variable \in CheckedVariables, parameter \in {"FillValue", "MissingValue"},
          flattened \in {<<>>, <<0, 1>>} :
          InvocationEnds(variable, "check_fillvalues_timeseries", parameter,
                         check_fillvalues_timeseries(parameter, "none", TRUE, TRUE,
                                                     FALSE, flattened))

InvokeCheckConstants ==
    /\ suite = "invoking"
    /\ step < MaxInvocations
    /\ \E variable \in CheckedVariables, n \in 0 .. 1 :
          InvocationEnds(variable, "check_constants", "", check_constants("none", n))

\* check_outliers takes no variable: it checks the one the thresholds name
InvokeCheckOutliers ==
    /\ suite = "invoking"
    /\ step < MaxInvocations
    /\ \E n \in 0 .. 1 :
          InvocationEnds(variable_id, "check_outliers", "", check_outliers(1, "none", n))

InvokeCheckSpatialStatisticalOutliers ==
    /\ suite = "invoking"
    /\ step < MaxInvocations
    /\ \E variable \in CheckedVariables, parameter \in {"Z-Score", "IQR"},
          nmin, nmax \in 0 .. 1 :
          InvocationEnds(variable, "check_spatial_statistical_outliers", parameter,
                         check_spatial_statistical_outliers(parameter, "none", nmin, nmax))

ReportInit ==
    /\ ScanIdle
    /\ FnIdle
    /\ suite = "invoking"
    /\ step = 0
    /\ nResults = 0
    /\ reports = <<>>
    /\ last = [check |-> "", parameter |-> "", fault |-> "none", anomalies |-> 0,
               decided |-> FALSE, ctx |-> NewCtx, escaped |-> "", dumps |-> {}]

ReportNext ==
    \/ InvokeCheckNanInf
    \/ InvokeCheckFillvaluesTimeseries
    \/ InvokeCheckConstants
    \/ InvokeCheckOutliers
    \/ InvokeCheckSpatialStatisticalOutliers

ReportSpec == ReportInit /\ [][ReportNext]_vars

\* C25 (as claimed): any two check invocations that differ in the variable,
\* in the check, or in the checked parameter/options write their failure
\* reports to different file paths, so no invocation overwrites the report
\* of another, in whatever order or interleaving they run: a file under
\* reports/ keeps the report it holds.
C25_NoReportOverwritten ==
    [][\A path \in DOMAIN reports : reports'[path] = reports[path]]_vars

----------------------------------------------------------------------------
(* The dataset handle the checks share: the read settings of the variable   *)
(* (netCDF4's auto-mask and auto-scale) and what the checks read through    *)
(* them (check_nan_inf.py:65-68, check_fill_missing.py:52-60)               *)

\* The cells of the variable on disk: an ordinary number, the _FillValue,
\* the missing_value
DiskCells == {"number", "_FillValue", "missing_value"}

\* np.sum(... == val) of check_value on a slice of one cell (lines 52-60):
\* with auto-mask on the cell is masked when it equals _FillValue or
\* missing_value, and filled(fill_value=val) puts val into a masked cell
check_value(cell, val_name, auto_mask) ==
    IF auto_mask
    THEN IF cell \in {"_FillValue", "missing_value"} THEN 1 ELSE 0
    ELSE IF cell = (IF val_name = "FillValue" THEN "_FillValue" ELSE "missing_value")
         THEN 1 ELSE 0

\* check_fillvalues_timeseries on a handle: flattened holds one count per
\* time step
CheckFillvaluesThrough(handle, data, parameter) ==
    check_fillvalues_timeseries(
        parameter, "none", TRUE, TRUE, FALSE,
        [t \in DOMAIN data |-> check_value(data[t], parameter, handle.auto_mask)])

\* check_nan_inf on a handle: it reads the raw values, which hold no NaN and
\* no Inf
CheckNanInfThrough(handle, data, parameter) ==
    check_nan_inf(parameter, FALSE, "none", 0)

\* var.set_auto_mask(False); var.set_auto_scale(False) (check_nan_inf.py:66-67)
SetAutoOff(handle) == [auto_mask |-> FALSE, auto_scale |-> FALSE]

\* The suite, or another caller, runs check_nan_inf on the handle
HandleCheckNanInf ==
    /\ Len(called) < MaxInvocations
    /\ \E parameter \in {"NaN", "Inf"} :
          /\ called' = Append(called, [check |-> "check_nan_inf", parameter |-> parameter])
          /\ output' = Append(output,
                              CheckNanInfThrough(SetAutoOff(input.handle), input.data,
                                                 parameter))
    /\ input' = [input EXCEPT !.handle = SetAutoOff(@)]
    /\ UNCHANGED <<scanVars, suiteVars>>

\* The suite, or another caller, runs check_fillvalues_timeseries on the handle
HandleCheckFillvaluesTimeseries ==
    /\ Len(called) < MaxInvocations
    /\ \E parameter \in {"FillValue", "MissingValue"} :
          /\ called' = Append(called, [check |-> "check_fillvalues_timeseries",
                                       parameter |-> parameter])
          /\ output' = Append(output,
                              CheckFillvaluesThrough(input.handle, input.data, parameter))
    /\ UNCHANGED input
    /\ UNCHANGED <<scanVars, suiteVars>>

\* The dataset as it was opened: the read settings of the variable (both on
\* unless the caller turned them off) and its cells, one per time step
HandleInit ==
    /\ ScanIdle
    /\ SuiteIdle
    /\ called = <<>>
    /\ output = <<>>
    /\ \E auto_mask, auto_scale \in BOOLEAN, k \in 0 .. MaxData :
          \E data \in [1 .. k -> DiskCells] :
             input = [opened |-> [auto_mask |-> auto_mask, auto_scale |-> auto_scale],
                      handle |-> [auto_mask |-> auto_mask, auto_scale |-> auto_scale],
                      data |-> data]

HandleNext ==
    \/ HandleCheckNanInf
    \/ HandleCheckFillvaluesTimeseries

HandleSpec == HandleInit /\ [][HandleNext]_vars

\* What a check gives on the dataset as it was opened
OnOpened(call) ==
    IF call.check = "check_nan_inf"
    THEN CheckNanInfThrough(input.opened, input.data, call.parameter)
    ELSE CheckFillvaluesThrough(input.opened, input.data, call.parameter)

\* C26 (as claimed): no check modifies the dataset handle: after any check
\* returns, the dataset's variables, attributes and read settings
\* (auto-mask, auto-scale) are as they were before, so the outcome of a
\* check is the same whichever checks ran before it in the suite and the
\* same when the check is run again.
C26_HandleNotModified ==
    /\ input.handle = input.opened
    /\ \A k \in DOMAIN called : output[k] = OnOpened(called[k])

----------------------------------------------------------------------------
(* detect_outliers on an array (detect_physically_impossible_outlier.py:    *)
(* 106-147).  A float is held as its number of halves; the array is held as *)
(* its shape and its values in row-major order                              *)

\* The floats of the model: -1.5, 0, 1.5, 2, 3, NaN, +Inf and -Inf
OutlierCells == {-3, 0, 3, 4, 6, NaN, Inf, NegInf}

\* The thresholds of the model: 0 or 1.5 for the minimum, 1.5 or 2 for the
\* maximum
MinThresholds == {0, 3}

MaxThresholds == {3, 4}

\* x < threshold and x > threshold on floats, the threshold a number: a
\* comparison with NaN is false
PyLess(x, threshold) == x = NegInf \/ (x \notin {NaN, Inf, NegInf} /\ x < threshold)

PyGreater(x, threshold) == x = Inf \/ (x \notin {NaN, Inf, NegInf} /\ x > threshold)

\* int(x) of a float that is a number: truncation towards zero, given in
\* halves again
IntOf(halves) ==
    IF halves >= 0 THEN 2 * (halves \div 2) ELSE -(2 * ((-halves) \div 2))

\* np.column_stack(np.where(mask)): the index tuples of the cells a mask
\* holds, in row-major order
WhereRows(shape, mask) ==
    SelectSeq(NdIndex(shape), LAMBDA c : mask[RowMajorRank(c, shape) + 1])

\* detect_outliers(data, min_threshold, max_threshold): the dictionary it
\* returns, or the exception that leaves it
detect_outliers(shape, data, min_threshold, max_threshold) ==
    LET mask_min == [k \in DOMAIN data |-> PyLess(data[k], min_threshold)]
        mask_max == [k \in DOMAIN data |-> PyGreater(data[k], max_threshold)]
        outlier_coords_min == WhereRows(shape, mask_min)
        outlier_coords_max == WhereRows(shape, mask_max)
        coordinates_indices == outlier_coords_min \o outlier_coords_max
        values == [i \in DOMAIN coordinates_indices |->
                      data[RowMajorRank(coordinates_indices[i], shape) + 1]]
        types == [i \in DOMAIN outlier_coords_min |-> "min"]
                     \o [i \in DOMAIN outlier_coords_max |-> "max"]
        Raised(e) == [raised |-> e, coordinates_indices |-> <<>>, values |-> <<>>,
                      types |-> <<>>, proportion |-> <<>>]
    IN  IF Len(data) = 0
        THEN Raised("ZeroDivisionError")     \* line 142
        ELSE IF \E i \in DOMAIN values : values[i] \in {Inf, NegInf}
        THEN Raised("OverflowError")         \* int(x), line 144
        ELSE [raised |-> "",
              coordinates_indices |-> coordinates_indices,
              values |-> [i \in DOMAIN values |-> IntOf(values[i])],
              types |-> types,
              proportion |-> <<Len(values), Len(data)>>]

\* check_outliers runs detect_outliers on the data of the variable
CallDetectOutliers ==
    /\ called = ""
    /\ \E min_threshold \in MinThresholds, max_threshold \in MaxThresholds :
          output' = [min_threshold |-> min_threshold, max_threshold |-> max_threshold,
                     outliers |-> detect_outliers(input.shape, input.data,
                                                  min_threshold, max_threshold)]
    /\ called' = "detect_outliers"
    /\ UNCHANGED input
    /\ UNCHANGED <<scanVars, suiteVars>>

\* An array of one or two dimensions and up to MaxData cells
OutlierInit ==
    /\ ScanIdle
    /\ SuiteIdle
    /\ called = ""
    /\ output = <<>>
    /\ \E r \in 1 .. 2 :
          \E shape \in [1 .. r -> 0 .. MaxData] :
             /\ Prod(shape) <= MaxData
             /\ \E data \in [1 .. Prod(shape) -> OutlierCells] :
                   input = [shape |-> shape, data |-> data]

OutlierNext == CallDetectOutliers

OutlierSpec == OutlierInit /\ [][OutlierNext]_vars

----------------------------------------------------------------------------
(* Properties of detect_outliers *)

\* The value of the cell at an index tuple
CellOf(c) == input.data[RowMajorRank(c, input.shape) + 1]

\* The cell's value is strictly below, or strictly above, a threshold
StrictlyBelow(x, threshold) ==
    x # NaN /\ (x = NegInf \/ (x # Inf /\ x < threshold))

StrictlyAbove(x, threshold) ==
    x # NaN /\ (x = Inf \/ (x # NegInf /\ x > threshold))

\* The entries of the three lists describe, one by one, cells flagged for
\* the reason the type names
OutliersAsClaimed(o, min_threshold, max_threshold) ==
    /\ o.raised = ""
    /\ Len(o.coordinates_indices) = Len(o.values)
    /\ Len(o.values) = Len(o.types)
    /\ \A c \in Range(NdIndex(input.shape)) :
          /\ StrictlyBelow(CellOf(c), min_threshold) <=>
                \E i \in DOMAIN o.types :
                    o.coordinates_indices[i] = c /\ o.types[i] = "min"
          /\ StrictlyAbove(CellOf(c), max_threshold) <=>
                \E i \in DOMAIN o.types :
                    o.coordinates_indices[i] = c /\ o.types[i] = "max"
    /\ \A i \in DOMAIN o.types :
          /\ o.types[i] \in {"min", "max"}
          /\ o.coordinates_indices[i] \in Range(NdIndex(input.shape))
          /\ o.values[i] = IntOf(CellOf(o.coordinates_indices[i]))
    /\ \A i, j \in DOMAIN o.types :
          (o.types[i] = "min" /\ o.types[j] = "max") => i < j
    /\ o.proportion = <<Len(o.types), Len(input.data)>>

\* C27 (as claimed): detect_outliers flags a cell as type min if and only if
\* its value is strictly below min_threshold and as type max if and only if
\* it is strictly above max_threshold (a value equal to a threshold is not
\* flagged); coordinates_indices, values and types have the same length,
\* entry i of each describes the same cell (values holding the integer part
\* of the cell's value), all min entries come before all max entries, and
\* proportion equals the number of entries divided by the number of cells.
C27_OutliersStrictlyOutside ==
    called = "detect_outliers" =>
        OutliersAsClaimed(output.outliers, output.min_threshold, output.max_threshold)

----------------------------------------------------------------------------
(* The scans as functions of the array they are given, and                  *)
(* check_fillvalues_timeseries on the values of a variable                  *)
(* (data.py:4-104, check_fill_missing.py:52-60, 107-145)                    *)

\* check_variable_conditions(dataset, variable_name, check_dims, check_func,
\* data=variable) (data.py:51-104): the iterations of its loop in order,
\* each with its indices and the slice it hands to check_func
ScanInner(variable, dims) ==
    IF ~IndexShapesOK(variable, dims)
    THEN [raised |-> "IndexError", results |-> <<>>]
    ELSE [raised |-> "",
          results |->
              [n \in 1 .. Prod(IndexShapes(variable, dims)) |->
                  LET indices == NdIndex(IndexShapes(variable, dims))[n]
                  IN  [combo |-> <<>>,
                       indices |-> indices,
                       data_slice |->
                           GetItem(variable,
                                   InnerFullSlice(variable, dims, indices))]]]

\* full_slice[dim_index] = combo[idx] and data[tuple(full_slice)]
\* (data.py:29-33) raise IndexError when dim_index is no axis of data, or
\* the index is not below the size of that axis
OuterSliceRaises(data, dims, c) ==
    \E j \in DOMAIN AdditionalDimensions(dims) :
        LET dim_index == IndexOf(varDims, AdditionalDimensions(dims)[j])
        IN  \/ dim_index >= Ndim(data)
            \/ OuterFullSlice(data, dims, c)[dim_index + 1] >= Shape(data)[dim_index + 1]

\* check_variable_conditions_expanded(dataset, variable_name, check_dims,
\* check_func, data) (data.py:11-38), flattened as the checks flatten the
\* dictionary it returns: the iterations of the inner scans in order, each
\* with the combination it belongs to
ScanExpanded(data, dims) ==
    LET combinations == Combinations(dims)
        Inner(c) == ScanInner(GetItem(data, OuterFullSlice(data, dims, c)),
                              CheckDimsSlice(dims))
        Raised(c) == IF OuterSliceRaises(data, dims, c) THEN "IndexError"
                     ELSE Inner(c).raised
    IN  IF \E n \in DOMAIN combinations : Raised(combinations[n]) # ""
        THEN [raised |-> "IndexError", results |-> <<>>]
        ELSE [raised |-> "",
              results |->
                  Flatten([n \in DOMAIN combinations |->
                      [i \in DOMAIN Inner(combinations[n]).results |->
                          [Inner(combinations[n]).results[i]
                              EXCEPT !.combo = combinations[n]]]])]

\* The _FillValue of the variable of the model
FillValue == 1

\* check_value(data_slice, parameters) (check_fill_missing.py:52-60): the
\* number of cells of the slice that hold the fill value
CountFill(cells, data_slice) ==
    Cardinality({k \in DOMAIN Values(cells, data_slice) :
                    Values(cells, data_slice)[k] = FillValue})

\* failing_coords, flattened (check_fill_missing.py:117-130): the
\* (coordinate, count) pairs of the scan
FillScan(cells) ==
    LET scan == IF Len(get_filtered_dimensions) > 1
                THEN ScanExpanded(FullView, get_filtered_dimensions)
                ELSE ScanInner(FullView, get_filtered_dimensions)
    IN  [raised |-> scan.raised,
         results |-> [i \in DOMAIN scan.results |->
                         [coord |-> scan.results[i].combo \o scan.results[i].indices,
                          val |-> CountFill(cells, scan.results[i].data_slice)]]]

\* check_fillvalues_timeseries(dataset, variable, "FillValue") on the
\* variable, which has a _FillValue and no missing_value
CheckFillvaluesOn(cells) ==
    LET scan == FillScan(cells)
        flattened == [i \in DOMAIN scan.results |-> scan.results[i].val]
    IN  [flattened |-> scan.results,
         detected_diff |-> [i \in DOMAIN detect_changes_in_values(flattened) |->
                               scan.results[detect_changes_in_values(flattened)[i]]],
         gives |-> check_fillvalues_timeseries(
                       "FillValue", IF scan.raised = "" THEN "none" ELSE "scan",
                       TRUE, FALSE, FALSE, flattened)]

\* A caller runs check_fillvalues_timeseries(dataset, variable, "FillValue")
CallCheckFillvaluesTimeseries ==
    /\ called = ""
    /\ pc = "idle"
    /\ called' = "check_fillvalues_timeseries"
    /\ output' = CheckFillvaluesOn(input)
    /\ UNCHANGED input
    /\ UNCHANGED <<scanVars, suiteVars>>

FillNext == CallCheckFillvaluesTimeseries

FillSpec == VariableInit /\ [][FillNext]_vars

----------------------------------------------------------------------------
(* Properties of check_fillvalues_timeseries on a variable *)

\* The variable's dimensions other than x, y and t, in declared order, and
\* their index combinations
OtherDims == SelectSeq(varDims, LAMBDA d : d \notin {DsDims.x, DsDims.y, DsDims.t})

OtherCombinations == Range(NdIndex(SizesOf(OtherDims)))

HasTime == DsDims.t \in Range(varDims)

TimeSteps == IF HasTime THEN 0 .. dimSize[DsDims.t] - 1 ELSE {}

\* The number of fill values of the horizontal field at a combination and a
\* time step
FillCountAt(cells, c, t) ==
    CountFill(cells, SliceFixing(OtherDims \o <<DsDims.t>>, c \o <<t>>))

\* The count is constant over time within every combination
ConstantOverTime(cells) ==
    \A c \in OtherCombinations : \A t1, t2 \in TimeSteps :
        FillCountAt(cells, c, t1) = FillCountAt(cells, c, t2)

\* C28 (as claimed): check_fillvalues_timeseries reports a change of the
\* fill/missing-value count only between consecutive time steps of one and
\* the same combination of the other non-horizontal dimensions: a variable
\* whose count is constant over time within every such combination passes,
\* even when that constant differs from one combination to the next.
C28_ChangesOnlyWithinCombination ==
    (called = "check_fillvalues_timeseries" /\ HasTime /\ ConstantOverTime(input)) =>
        /\ output.gives.escaped = ""
        /\ Passes(output.gives.ctx) = 1
        /\ Failures(output.gives.ctx) = 0
        /\ output.detected_diff = <<>>

----------------------------------------------------------------------------
(* check_spatial_statistical_outliers on the values of a variable, with the *)
(* Z-score condition (check_spatial_statistical_outliers.py:56-184)         *)

\* The mark of the time axis in the view that stands for max_time_series or
\* min_time_series: the axis is gone from the array, each cell holding the
\* maximum or minimum over it
Reduced == -2

\* np.max / np.min over the values of one cell along the time axis: NaN when
\* one of them is NaN
PyMax(S) == IF NaN \in S THEN NaN ELSE CHOOSE x \in S : \A y \in S : y <= x

PyMin(S) == IF NaN \in S THEN NaN ELSE CHOOSE x \in S : \A y \in S : x <= y

\* i_time = get_dimension_indices(dataset, variable)["time"] (line 67)
ITime == IndexOf(varDims, "time")

\* The array np.max(variable_data, axis=i_time) as a view (lines 68-70)
TimeReducedView ==
    [p \in DOMAIN varDims |-> IF p = ITime + 1 THEN Reduced ELSE Full]

\* calculate_time_series_max_min raises KeyError for a variable without a
\* dimension named time, and ValueError for one with no time step
TimeSeriesRaises ==
    "time" \notin Range(varDims) \/ dimSize["time"] = 0

\* The values of a slice of max_time_series (series "max") or of
\* min_time_series ("min"), in row-major order
ReducedValues(cells, slice, series) ==
    [k \in DOMAIN Cells(slice) |->
        LET idx == GetItem(slice, Cells(slice)[k])
            over == {cells[DataAt([idx EXCEPT ![ITime + 1] = t])] :
                        t \in 0 .. dimSize["time"] - 1}
        IN  IF series = "max" THEN PyMax(over) ELSE PyMin(over)]

\* What one call of the condition function appends to results
\* (data.py:76-96): one entry per cell of the mask that is true; a slice of
\* no dimension gives a numpy bool, which is recorded by no branch
ZscoreEntries(cells, series, threshold, call) ==
    LET data_slice == call.data_slice
        values == ReducedValues(cells, data_slice, series)
        out == zscore_condition(values, threshold)
        true_coords == SelectSeq([k \in DOMAIN values |-> k],
                                 LAMBDA k : out.data_mask[k])
    IN  IF Ndim(data_slice) = 0 THEN <<>>
        ELSE [i \in DOMAIN true_coords |->
                 [coord |-> call.combo \o call.indices
                               \o Cells(data_slice)[true_coords[i]],
                  value |-> values[true_coords[i]],
                  score |-> out.zscores[true_coords[i]]]]

\* check_dims after the time dimension is removed (lines 132, 145-150)
SpatialCheckDims ==
    SelectSeq(get_filtered_dimensions, LAMBDA dim : dim # DsDims.t)

\* The calls of the condition function in the scan of max_time_series or
\* min_time_series (lines 151-159), the two arrays having the same shape
SpatialScan ==
    IF Len(SpatialCheckDims) > 0
    THEN ScanExpanded(TimeReducedView, SpatialCheckDims)
    ELSE ScanInner(TimeReducedView, SpatialCheckDims)

\* check_spatial_statistical_outliers(dataset, variable, threshold=threshold,
\* parameter="Z-Score") on the variable: the slices the condition function
\* was called with, the flattened lists, the records of the returned
\* context and what the check gives
CheckSpatialOn(cells, threshold) ==
    LET Entries(series) ==
            Flatten([i \in DOMAIN SpatialScan.results |->
                        ZscoreEntries(cells, series, threshold, SpatialScan.results[i])])
        fault == IF TimeSeriesRaises THEN "compute"
                 ELSE IF SpatialScan.raised # "" THEN "scan"
                 ELSE "none"
        flattened_min == IF fault = "none" THEN Entries("min") ELSE <<>>
        flattened_max == IF fault = "none" THEN Entries("max") ELSE <<>>
        gives == check_spatial_statistical_outliers(
                     "Z-Score", fault, Len(flattened_min), Len(flattened_max))
    IN  [threshold |-> threshold,
         fault |-> fault,
         calls |-> IF fault = "none" THEN SpatialScan.results ELSE <<>>,
         flattened_min |-> flattened_min,
         flattened_max |-> flattened_max,
         \* ctx.coordinates of the returned context: the last call of
         \* extract_coordinates_from_indices (line 163 when nothing was
         \* detected, line 176 otherwise) left there the records of
         \* flattened_max
         coordinates |-> flattened_max,
         gives |-> gives]

\* A caller runs check_spatial_statistical_outliers(dataset, variable,
\* threshold=threshold, parameter="Z-Score")
CallCheckSpatialStatisticalOutliers ==
    /\ called = ""
    /\ pc = "idle"
    /\ called' = "check_spatial_statistical_outliers"
    /\ \E threshold \in ZThresholds : output' = CheckSpatialOn(input, threshold)
    /\ UNCHANGED input
    /\ UNCHANGED <<scanVars, suiteVars>>

SpatialNext == CallCheckSpatialStatisticalOutliers

SpatialSpec == VariableInit /\ [][SpatialNext]_vars

----------------------------------------------------------------------------
(* Properties of check_spatial_statistical_outliers on a variable *)

\* The horizontal field of the time-reduced array at a combination of the
\* other dimensions
HorizontalField(c) ==
    [p \in DOMAIN varDims |->
        IF varDims[p] = DsDims.t THEN Reduced
        ELSE IF varDims[p] \in Range(OtherDims)
        THEN c[IndexOf(OtherDims, varDims[p]) + 1]
        ELSE Full]

\* The combinations of the other dimensions in the order of the scan
OtherCombinationList == NdIndex(SizesOf(OtherDims))

\* An entry of a flattened list is an outlier of a series: its coordinate is
\* a combination followed by a cell position of the horizontal field at that
\* combination, and its value is the value of the series there
OutlierOf(cells, e, series) ==
    \E c \in OtherCombinations :
        \E k \in DOMAIN Cells(HorizontalField(c)) :
            /\ e.coord = c \o Cells(HorizontalField(c))[k]
            /\ e.value = ReducedValues(cells, HorizontalField(c), series)[k]

\* C29 (as claimed): in check_spatial_statistical_outliers on a variable that
\* has non-time, non-horizontal dimensions, each outer combination selects
\* from the time-reduced max (or min) array the horizontal field at that
\* combination's indices on those dimensions, the detector runs once per
\* combination on the max series and once on the min series, and every
\* recorded coordinate is the combination's indices followed by the y and x
\* cell position of the outlier.
C29_CombinationSelectsHorizontalField ==
    (/\ called = "check_spatial_statistical_outliers"
     /\ OtherDims # <<>>
     /\ ~TimeSeriesRaises) =>
        /\ output.fault = "none"
        /\ output.calls =
              [n \in DOMAIN OtherCombinationList |->
                  [combo |-> OtherCombinationList[n],
                   indices |-> <<>>,
                   data_slice |-> HorizontalField(OtherCombinationList[n])]]
        /\ \A i \in DOMAIN output.flattened_max :
              OutlierOf(input, output.flattened_max[i], "max")
        /\ \A i \in DOMAIN output.flattened_min :
              OutlierOf(input, output.flattened_min[i], "min")

\* The count stated in the message 'Outliers detected: N points.'
StatedCount(ctx) ==
    {ctx.messages[i].count : i \in {j \in DOMAIN ctx.messages :
                                       ctx.messages[j].text = "Outliers detected"}}

\* C30 (as claimed): when check_spatial_statistical_outliers returns after
\* detecting outliers, the anomaly records attached to the returned context
\* are exactly the outliers of the min series together with those of the max
\* series, so their number equals the count stated in the 'Outliers
\* detected: N points' failure message.
C30_RecordsAreMinAndMaxOutliers ==
    (/\ called = "check_spatial_statistical_outliers"
     /\ output.fault = "none"
     /\ output.flattened_min \o output.flattened_max # <<>>) =>
        /\ output.coordinates = output.flattened_min \o output.flattened_max
        /\ Len(output.gives.ctx.coordinates) = Len(output.coordinates)
        /\ StatedCount(output.gives.ctx) = {<<Len(output.coordinates)>>}

====
